---- MODULE Spec2Model ----
(***************************************************************************)
(* A model of Melvin's on-disk metadata engine (pvlabel.rs) and of its     *)
(* volume-group editor (vg.rs).                                            *)
(*                                                                         *)
(* A block device is a byte array.  The model keeps it run-length encoded: *)
(* a Buffer is a sequence of runs [src, off, len], the run standing for    *)
(* the bytes off .. off+len-1 of the byte string named by src.  All        *)
(* offsets and lengths are byte counts, exactly as in the code.            *)
(***************************************************************************)
EXTENDS Integers, Sequences, FiniteSets, TLC

VARIABLES disk, partitions, vg, dm, res, wr

vars == <<disk, partitions, vg, dm, res, wr>>

----------------------------------------------------------------------------
(* Program constants                                                       *)

SECTOR_SIZE == 512

MDA_HEADER_SIZE == 512

DEFAULT_EXTENT_SIZE == 8192

Min(a, b) == IF a <= b THEN a ELSE b

(* let x = e; F(x): e is computed once and F works on its value *)
With(e, F(_)) == CHOOSE y \in {F(x) : x \in {e}} : TRUE

(* x & !m on machine words, bit by bit. *)
RECURSIVE AndNot(_, _)
AndNot(x, m) ==
    IF x = 0 THEN 0
    ELSE (IF m % 2 = 1 THEN 0 ELSE x % 2) + 2 * AndNot(x \div 2, m \div 2)

(* util.rs align_to: (num + agn) & !agn with agn = align_to - 1 *)
align_to(num, align) ==
    LET agn == align - 1 IN AndNot(num + agn, agn)

----------------------------------------------------------------------------
(* Byte buffers, run-length encoded                                        *)

ZeroSrc == <<"zero">>

ZeroRun(n) == [src |-> ZeroSrc, off |-> 0, len |-> n]

(* n bytes of zeros: vec![0; n], [0u8; n] *)
Zeros(n) == IF n <= 0 THEN <<>> ELSE <<ZeroRun(n)>>

(* the run r with its first n bytes dropped *)
RunDrop(r, n) ==
    IF r.src = ZeroSrc THEN [r EXCEPT !.len = r.len - n]
    ELSE [r EXCEPT !.off = r.off + n, !.len = r.len - n]

(* b continues a: one run can stand for both *)
Continues(a, b) ==
    /\ a.src = b.src
    /\ (a.src = ZeroSrc \/ b.off = a.off + a.len)

(* a ++ b, kept in normal form (no two adjacent runs that continue) *)
Concat(a, b) ==
    IF a = <<>> THEN b
    ELSE IF b = <<>> THEN a
    ELSE LET x == a[Len(a)]
             y == b[1]
         IN IF Continues(x, y)
            THEN SubSeq(a, 1, Len(a) - 1)
                   \o <<[x EXCEPT !.len = x.len + y.len]>>
                   \o SubSeq(b, 2, Len(b))
            ELSE a \o b

RECURSIVE BufLen(_)
BufLen(b) == IF b = <<>> THEN 0 ELSE b[1].len + BufLen(Tail(b))

(* b[..n] *)
RECURSIVE Take(_, _)
Take(b, n) ==
    IF n <= 0 \/ b = <<>> THEN <<>>
    ELSE IF b[1].len <= n THEN <<b[1]>> \o Take(Tail(b), n - b[1].len)
    ELSE <<[b[1] EXCEPT !.len = n]>>

(* b[n..] *)
RECURSIVE Drop(_, _)
Drop(b, n) ==
    IF b = <<>> THEN <<>>
    ELSE IF n <= 0 THEN b
    ELSE IF b[1].len <= n THEN Drop(Tail(b), n - b[1].len)
    ELSE <<RunDrop(b[1], n)>> \o Tail(b)

(* b[from..to] *)
Slice(b, from, to) == Take(Drop(b, from), to - from)

(* copy data over b at position pos (data fits in b) *)
Overlay(b, pos, data) ==
    Concat(Concat(Take(b, pos), data), Drop(b, pos + BufLen(data)))

(* seek(pos); read(&mut buf[..n]) into a zeroed buffer: the bytes of the  *)
(* device from pos, zeros past its end (a short read leaves the zeros)    *)
ReadAt(dev, pos, n) ==
    LET got == Slice(dev, pos, pos + n)
    IN Concat(got, Zeros(n - BufLen(got)))

(* seek(pos); write_all(data): fails, with the device filled to its end,  *)
(* when data does not fit before the end of the device                    *)
WriteAt(dev, pos, data) ==
    LET size == BufLen(dev)
        fit  == Take(data, size - pos)
    IN [ok   |-> pos + BufLen(data) <= size,
        disk |-> IF pos >= size THEN dev ELSE Overlay(dev, pos, fit)]

(* util.rs crc32_calc, as a collision-free digest of the bytes: two       *)
(* buffers have the same checksum exactly when they hold the same bytes   *)
crc32_calc(buf) == <<"crc", buf>>

----------------------------------------------------------------------------
(* Text metadata                                                           *)

(* parser.rs textmap_to_buf(map) with the NUL that write_metadata pushes:  *)
(* n bytes that spell map.  The length depends on strings the model does   *)
(* not carry (host name, uuids, description), so it is an input.           *)
TextBuf(map, n) == <<[src |-> <<"text", map, n>>, off |-> 0, len |-> n]>>

IsWholeText(buf) ==
    /\ Len(buf) = 1
    /\ buf[1].src[1] = "text"
    /\ buf[1].off = 0
    /\ buf[1].len = buf[1].src[3]

(* parser.rs buf_to_textmap: the map a complete text spells, an error for  *)
(* anything else                                                           *)
buf_to_textmap(buf) ==
    IF IsWholeText(buf)
    THEN [ok |-> TRUE, map |-> buf[1].src[2]]
    ELSE [ok |-> FALSE, map |-> <<>>]

----------------------------------------------------------------------------
(* pvlabel.rs: the MDA header and its RawLocn                              *)

MDA_MAGIC == "\\x20LVM2\\x20x[5A%r0N*>"

None == <<>>

Some(x) == <<x>>

(* bytes [4..512] of an MDA header sector: magic, version, start, size,    *)
(* rlocn 0 (offset, size, checksum, flags), zeros                          *)
HdrBody(magic, version, start, size, rl_offset, rl_size, rl_checksum, rl_flags) ==
    <<[src |-> <<"mdah", [magic |-> magic, version |-> version,
                          start |-> start, size |-> size,
                          rl_offset |-> rl_offset, rl_size |-> rl_size,
                          rl_checksum |-> rl_checksum, rl_flags |-> rl_flags]>>,
       off |-> 0, len |-> MDA_HEADER_SIZE - 4]>>

(* LittleEndian::write_u32(&mut hdr[..4], csum) *)
U32Bytes(v) == <<[src |-> <<"u32", v>>, off |-> 0, len |-> 4]>>

(* LittleEndian::read_u32(&hdr[..4]) *)
ReadU32(buf) ==
    IF Len(buf) = 1 /\ buf[1].src[1] = "u32" /\ buf[1].off = 0 /\ buf[1].len = 4
    THEN buf[1].src[2]
    ELSE <<"raw", buf>>

IsHdrBody(buf) ==
    /\ Len(buf) = 1
    /\ buf[1].src[1] = "mdah"
    /\ buf[1].off = 0
    /\ buf[1].len = MDA_HEADER_SIZE - 4

(* a field of the header read back from bytes [4..512] *)
HdrField(buf) == buf[1].src[2]

(* RawLocnIter::next on &hdr[40..] *)
RawLocnIter_next(h) ==
    IF h.rl_offset = 0 THEN None
    ELSE Some([offset   |-> h.rl_offset,
               size     |-> h.rl_size,
               checksum |-> h.rl_checksum,
               ignored  |-> (h.rl_flags % 2) > 0])

(* PvHeader::read_mda_header: status "ok" with Option<RawLocn>, "err", or  *)
(* "panic" for the failed assert                                           *)
read_mda_header(area, dev) ==
    IF ~(area.size > MDA_HEADER_SIZE) THEN [status |-> "panic", rl |-> None]
    ELSE
    With(ReadAt(dev, area.offset, MDA_HEADER_SIZE), LAMBDA hdr :
    With(Slice(hdr, 4, MDA_HEADER_SIZE), LAMBDA body :
       IF ReadU32(Slice(hdr, 0, 4)) # crc32_calc(body)
         THEN [status |-> "err", rl |-> None]
       ELSE IF ~IsHdrBody(body) \/ HdrField(body).magic # MDA_MAGIC
         THEN [status |-> "err", rl |-> None]
       ELSE IF HdrField(body).version # 1
         THEN [status |-> "err", rl |-> None]
       ELSE IF HdrField(body).start # area.offset
         THEN [status |-> "err", rl |-> None]
       ELSE IF HdrField(body).size # area.size
         THEN [status |-> "err", rl |-> None]
       ELSE [status |-> "ok", rl |-> RawLocnIter_next(HdrField(body))]))

(* the 512 bytes PvHeader::write_mda_header builds *)
MdaHeaderBytes(area, rl) ==
    LET body == HdrBody(MDA_MAGIC, 1, area.offset, area.size,
                        rl.offset, rl.size, rl.checksum,
                        IF rl.ignored THEN 1 ELSE 0)
    IN Concat(U32Bytes(crc32_calc(body)), body)

(* PvHeader::write_mda_header *)
write_mda_header(area, dev, rl) ==
    WriteAt(dev, area.offset, MdaHeaderBytes(area, rl))

(* PvHeader::read_metadata, the first read into the zeroed text buffer *)
read_text_first(area, dev, rl) ==
    With(Min(area.size - rl.offset, rl.size), LAMBDA first_read :
         Overlay(Zeros(rl.size), 0,
                 ReadAt(dev, area.offset + rl.offset, first_read)))

(* PvHeader::read_metadata, the second read, taken when the blob wraps: it *)
(* lands at rl.size - first_read                                           *)
read_text_rest(area, dev, rl, text1) ==
    With(Min(area.size - rl.offset, rl.size), LAMBDA first_read :
      IF first_read # rl.size
      THEN Overlay(text1, rl.size - first_read,
                   ReadAt(dev, area.offset + MDA_HEADER_SIZE, first_read))
      ELSE text1)

(* PvHeader::read_metadata, the two reads that fill the text buffer *)
read_text(area, dev, rl) ==
    read_text_rest(area, dev, rl, read_text_first(area, dev, rl))

(* PvHeader::read_metadata, the checksum of the text and its parse *)
check_text(rl, text) ==
    IF rl.checksum # crc32_calc(text) THEN [status |-> "err", map |-> <<>>]
    ELSE With(buf_to_textmap(text), LAMBDA m :
           [status |-> IF m.ok THEN "ok" ELSE "err", map |-> m.map])

(* PvHeader::read_metadata, the body of its loop for one metadata area:    *)
(* "continue" (no live metadata here), "ok" with the map, "err", "panic"   *)
read_metadata_area(area, dev) ==
    With(read_mda_header(area, dev), LAMBDA h :
    IF h.status # "ok" THEN [status |-> h.status, map |-> <<>>]
    ELSE IF h.rl = None THEN [status |-> "continue", map |-> <<>>]
    ELSE IF h.rl[1].ignored THEN [status |-> "continue", map |-> <<>>]
    ELSE IF area.size < h.rl[1].offset THEN [status |-> "panic", map |-> <<>>]
    ELSE check_text(h.rl[1], read_text(area, dev, h.rl[1])))

(* PvHeader::read_metadata over the areas of the PV header, in order *)
RECURSIVE read_metadata(_, _)
read_metadata(areas, dev) ==
    IF areas = <<>> THEN [status |-> "err", map |-> <<>>]
    ELSE With(read_metadata_area(areas[1], dev), LAMBDA r :
            IF r.status = "continue" THEN read_metadata(Tail(areas), dev)
            ELSE r)

(* checksum: 0 *)
ZeroChecksum == <<"crc of nothing">>

(* write_metadata: the RawLocn it starts from (the header's, or the        *)
(* template of a first write)                                              *)
InitialRawLocn ==
    [offset |-> MDA_HEADER_SIZE, size |-> 0, checksum |-> ZeroChecksum,
     ignored |-> FALSE]

(* write_metadata: start_off, "start at next sector in loop, but skip 0th  *)
(* sector"                                                                 *)
start_off(area, rl) ==
    Min(MDA_HEADER_SIZE, align_to(rl.offset + rl.size, SECTOR_SIZE) % area.size)

tail_space(area, rl) == area.size - start_off(area, rl)

(* write_metadata: the first write of the payload, at start_off *)
write_payload_first(area, dev, rl, text) ==
    IF tail_space(area, rl) # 0
    THEN With(Min(tail_space(area, rl), BufLen(text)), LAMBDA n :
         With(WriteAt(dev, area.offset + start_off(area, rl), Take(text, n)),
              LAMBDA w : [ok |-> w.ok, disk |-> w.disk, written |-> n]))
    ELSE [ok |-> TRUE, disk |-> dev, written |-> 0]

(* write_metadata: the write of the rest of the payload, at sector 1 *)
write_payload_rest(area, dev, written, text) ==
    IF written # BufLen(text)
    THEN WriteAt(dev, area.offset + MDA_HEADER_SIZE, Drop(text, written))
    ELSE [ok |-> TRUE, disk |-> dev]

(* write_metadata: the RawLocn stored once the payload is written *)
new_rl(area, rl, text) ==
    [offset   |-> start_off(area, rl),
     size     |-> BufLen(text),
     checksum |-> crc32_calc(text),
     ignored  |-> rl.ignored]

(* write_metadata, the body of its loop for one metadata area, run to its  *)
(* end: "continue" (area done or skipped), "err", "panic"                  *)
write_metadata_area(area, dev, text) ==
    With(read_mda_header(area, dev), LAMBDA h :
    IF h.status # "ok" THEN [status |-> h.status, disk |-> dev]
    ELSE
    With(IF h.rl = None THEN InitialRawLocn ELSE h.rl[1], LAMBDA rl :
    IF rl.ignored THEN [status |-> "continue", disk |-> dev]
    ELSE IF start_off(area, rl) % SECTOR_SIZE # 0
            \/ tail_space(area, rl) % SECTOR_SIZE # 0
      THEN [status |-> "panic", disk |-> dev]
    ELSE
    With(write_payload_first(area, dev, rl, text), LAMBDA w1 :
    IF ~w1.ok THEN [status |-> "err", disk |-> w1.disk]
    ELSE
    With(write_payload_rest(area, w1.disk, w1.written, text), LAMBDA w2 :
    IF ~w2.ok THEN [status |-> "err", disk |-> w2.disk]
    ELSE
    With(write_mda_header(area, w2.disk, new_rl(area, rl, text)), LAMBDA w3 :
    [status |-> IF w3.ok THEN "continue" ELSE "err", disk |-> w3.disk])))))

(* PvHeader::write_metadata over the areas of the PV header, in order *)
RECURSIVE write_metadata(_, _, _)
write_metadata(areas, dev, text) ==
    IF areas = <<>> THEN [status |-> "ok", disk |-> dev]
    ELSE With(write_metadata_area(areas[1], dev, text), LAMBDA r :
            IF r.status = "continue"
            THEN write_metadata(Tail(areas), r.disk, text)
            ELSE r)

----------------------------------------------------------------------------
(* The block devices of the model and their PV headers                     *)

NumDevs == 2

DEFAULT_MDA_SIZE == 1048576

(* sectors of the one metadata area of a PV laid out with a small area *)
SmallMdaSectors == 4

SmallMdaSize == SmallMdaSectors * SECTOR_SIZE

DevIdx == 0 .. NumDevs - 1

(* pv.rs Device: (major, minor); sda, sdb, sdc, ... *)
DeviceOf(i) == <<8, 16 * i>>

Devices == {DeviceOf(i) : i \in DevIdx}

IdxOf(d) == CHOOSE i \in DevIdx : DeviceOf(i) = d

(* #[derive(PartialOrd, Ord)] on Device: by major, then by minor *)
DevLess(a, b) == a[1] < b[1] \/ (a[1] = b[1] /\ a[2] < b[2])

(* the extents the layout of device i leaves for data *)
ModelPeCount(i) == i + 2

(* Devices with an even index are laid out as PvHeader::initialize does    *)
(* (MDA0 after sector 8, MDA1 in the last MiB); those with an odd index    *)
(* carry one small metadata area, as a PV made with a small metadata size. *)
HasMda1(i) == i % 2 = 0

ModelDevSize(i) ==
    SECTOR_SIZE * (DEFAULT_EXTENT_SIZE + ModelPeCount(i) * DEFAULT_EXTENT_SIZE)
      + (IF HasMda1(i) THEN DEFAULT_MDA_SIZE ELSE 0)

(* loop devices (major 7) of graded sizes, for PvHeader::initialize and    *)
(* the arithmetic of pv_add: loop device k has MinLoopSectors plus k steps *)
(* of LoopStepSectors                                                      *)
MaxSizeSteps == 30

(* half a default metadata area *)
LoopStepSectors == (DEFAULT_MDA_SIZE \div SECTOR_SIZE) \div 2

(* one step below the least size PvHeader::initialize accepts *)
MinLoopSectors ==
    ((DEFAULT_MDA_SIZE * 2) + 8 * SECTOR_SIZE) \div SECTOR_SIZE - LoopStepSectors

LoopDev(k) == <<7, k>>

IsLoopDev(d) == d[1] = 7

LoopDevs == {LoopDev(k) : k \in 0 .. MaxSizeSteps}

(* blkdev_size: the bytes of the device *)
blkdev_size(d) ==
    IF IsLoopDev(d)
    THEN SECTOR_SIZE * (MinLoopSectors + d[2] * LoopStepSectors)
    ELSE ModelDevSize(IdxOf(d))

EXTENSION_VERSION == 1

(* initialize with a size check that leaves room for one metadata area *)
initialize_one_mda(d) ==
    LET mda0_offset == 8 * SECTOR_SIZE
        mda0_length == DEFAULT_MDA_SIZE - mda0_offset
        dev_size    == blkdev_size(d)
    IN IF dev_size < DEFAULT_MDA_SIZE + mda0_offset
       THEN [status |-> "err", why |-> <<"Device too small">>]
       ELSE [status |-> "ok",
             pvh |-> [size           |-> dev_size,
                      ext_version    |-> EXTENSION_VERSION,
                      data_areas     |->
                          <<[offset |-> mda0_offset + mda0_length, size |-> 0]>>,
                      metadata_areas |->
                          <<[offset |-> mda0_offset, size |-> mda0_length],
                            [offset |-> dev_size - DEFAULT_MDA_SIZE,
                             size   |-> DEFAULT_MDA_SIZE]>>,
                      bootloader_areas |-> <<>>,
                      dev_path       |-> d]]

(* PvHeader::initialize, its size check and the PvHeader it lays out *)
initialize(d) ==
    LET mda0_offset == 8 * SECTOR_SIZE
        mda0_length == DEFAULT_MDA_SIZE - mda0_offset
        dev_size    == blkdev_size(d)
    IN IF dev_size < (DEFAULT_MDA_SIZE * 2) + mda0_offset
       THEN [status |-> "err", why |-> <<"Device too small">>]
       ELSE [status |-> "ok",
             pvh |-> [size           |-> dev_size,
                      ext_version    |-> EXTENSION_VERSION,
                      data_areas     |->
                          <<[offset |-> mda0_offset + mda0_length, size |-> 0]>>,
                      metadata_areas |->
                          <<[offset |-> mda0_offset, size |-> mda0_length],
                            [offset |-> dev_size - DEFAULT_MDA_SIZE,
                             size   |-> DEFAULT_MDA_SIZE]>>,
                      bootloader_areas |-> <<>>,
                      dev_path       |-> d]]

(* the PvHeader that find_in_dev reads from the label of the device: the   *)
(* one initialize wrote, or that of a PV with one small metadata area      *)
PvHeaderOf(d) ==
    IF IsLoopDev(d) \/ HasMda1(IdxOf(d)) THEN initialize(d).pvh
    ELSE [size           |-> blkdev_size(d),
          data_areas     |-> <<[offset |-> DEFAULT_MDA_SIZE, size |-> 0]>>,
          metadata_areas |-> <<[offset |-> 8 * SECTOR_SIZE,
                                size   |-> SmallMdaSize]>>,
          dev_path       |-> d]

(* PvHeader::initialize: an empty MDA header (RawLocn offset 0) written to *)
(* every metadata area of an otherwise blank device                        *)
EmptyRawLocn ==
    [offset |-> 0, size |-> 0, checksum |-> ZeroChecksum, ignored |-> FALSE]

RECURSIVE InitMdaHeaders(_, _)
InitMdaHeaders(areas, dev) ==
    IF areas = <<>> THEN dev
    ELSE InitMdaHeaders(Tail(areas),
                        write_mda_header(areas[1], dev, EmptyRawLocn).disk)

InitializedDisk(d) ==
    InitMdaHeaders(PvHeaderOf(d).metadata_areas, Zeros(PvHeaderOf(d).size))

----------------------------------------------------------------------------
(* vg.rs: the volume group in memory                                       *)

NumLvNames == 2

MaxExtentCount == 3

MaxSeqno == 3

VgName == <<"v", "g">>

Chars == <<"-", "a", "b", "c", "d", "g", "v">>

(* the bytes of the texts of the model, in the order of their values *)
Ascii ==
    <<"\n", " ", "\"", "#", ",", "-", ".",
      "0", "1", "2", "3", "4", "5", "6", "7", "8", "9",
      "=", "[", "]", "_", "a", "b", "c", "d", "g", "s", "t", "v", "{", "}">>

(* the order of bytes: '-' < '.' < '0' < ... < 'a' < 'b' < ... *)
CharCode(c) == CHOOSE i \in 1 .. Len(Ascii) : Ascii[i] = c

(* the order of String keys in a BTreeMap: bytewise, a prefix first *)
RECURSIVE NameLess(_, _)
NameLess(a, b) ==
    IF b = <<>> THEN FALSE
    ELSE IF a = <<>> THEN TRUE
    ELSE IF a[1] # b[1] THEN CharCode(a[1]) < CharCode(b[1])
    ELSE NameLess(Tail(a), Tail(b))

LvNames == {<<Chars[i + 1]>> : i \in 1 .. NumLvNames}

ExtentCounts == 1 .. MaxExtentCount

(* the keys of a BTreeMap<Device, _> in iteration order *)
RECURSIVE SortedDevs(_)
SortedDevs(S) ==
    IF S = {} THEN <<>>
    ELSE LET m == CHOOSE x \in S : \A y \in S : x = y \/ DevLess(x, y)
         IN <<m>> \o SortedDevs(S \ {m})

(* the keys of a BTreeMap<String, _> in iteration order *)
RECURSIVE SortedNames(_)
SortedNames(S) ==
    IF S = {} THEN <<>>
    ELSE LET m == CHOOSE x \in S : \A y \in S : x = y \/ NameLess(x, y)
         IN <<m>> \o SortedNames(S \ {m})

(* the keys of a BTreeMap<u64, _> in iteration order *)
RECURSIVE SortedNats(_)
SortedNats(S) ==
    IF S = {} THEN <<>>
    ELSE LET m == CHOOSE x \in S : \A y \in S : x <= y
         IN <<m>> \o SortedNats(S \ {m})

EmptyMap == <<>>

(* BTreeMap::insert: the new value replaces one already under the key *)
MapInsert(m, k, v) == (k :> v) @@ m

(* StripedSegment::used_areas: (device, start_extent, length) per stripe *)
segment_used_areas(seg) ==
    [i \in 1 .. Len(seg.stripes) |->
        <<seg.stripes[i][1], seg.stripes[i][2], seg.extent_count>>]

(* StripedSegment::pv_dependencies *)
pv_dependencies(seg) == [i \in 1 .. Len(seg.stripes) |-> seg.stripes[i][1]]

(* lv::used_areas *)
RECURSIVE segs_used_areas(_)
segs_used_areas(segs) ==
    IF segs = <<>> THEN <<>>
    ELSE segment_used_areas(segs[1]) \o segs_used_areas(Tail(segs))

lv_used_areas(lv) == segs_used_areas(lv.segments)

(* VG::used_areas: {Device: {start: len}}, the LVs taken in name order *)
RECURSIVE InsertAreas(_, _)
InsertAreas(used_map, areas) ==
    IF areas = <<>> THEN used_map
    ELSE LET device == areas[1][1]
             inner  == IF device \in DOMAIN used_map THEN used_map[device]
                       ELSE EmptyMap
         IN InsertAreas(
                MapInsert(used_map, device,
                          MapInsert(inner, areas[1][2], areas[1][3])),
                Tail(areas))

RECURSIVE used_areas_of(_, _, _)
used_areas_of(lvs, names, used_map) ==
    IF names = <<>> THEN used_map
    ELSE used_areas_of(lvs, Tail(names),
                       InsertAreas(used_map, lv_used_areas(lvs[names[1]])))

used_areas(v) == used_areas_of(v.lvs, SortedNames(DOMAIN v.lvs), EmptyMap)

(* VG::free_areas, the fold over one PV's used ranges: the gaps before     *)
(* each range whose start lies beyond the end of the range before it       *)
RECURSIVE fold_free(_, _, _, _)
fold_free(starts, area_map, prev_end, free) ==
    IF starts = <<>> THEN free
    ELSE LET start == starts[1]
             len   == area_map[start]
         IN fold_free(Tail(starts), area_map, start + len,
                      IF prev_end < start
                      THEN MapInsert(free, prev_end, start - prev_end)
                      ELSE free)

(* VG::free_areas, its first loop: over the PVs that have used ranges *)
RECURSIVE free_of_used(_, _, _, _)
free_of_used(v, used, devs, free_map) ==
    IF devs = <<>> THEN free_map
    ELSE LET dev      == devs[1]
             area_map == MapInsert(used[dev], v.pvs[dev].pe_count, 0)
             free     == fold_free(SortedNats(DOMAIN area_map), area_map, 0,
                                   EmptyMap)
         IN free_of_used(v, used, Tail(devs),
                         IF free = EmptyMap THEN free_map
                         ELSE MapInsert(free_map, dev, free))

(* VG::free_areas, its second loop: "Also return completely-unused PVs" *)
RECURSIVE free_of_unused(_, _, _)
free_of_unused(v, devs, free_map) ==
    IF devs = <<>> THEN free_map
    ELSE free_of_unused(v, Tail(devs),
            IF devs[1] \notin DOMAIN free_map
            THEN MapInsert(free_map, devs[1], (0 :> v.pvs[devs[1]].pe_count))
            ELSE free_map)

(* the expect() of free_areas fails: a used range names no PV of the VG *)
free_areas_panics(v) == ~(DOMAIN used_areas(v) \subseteq DOMAIN v.pvs)

(* VG::free_areas: {Device: {start: len}} *)
free_areas(v) ==
    LET used == used_areas(v)
    IN free_of_unused(v, SortedDevs(DOMAIN v.pvs),
                      free_of_used(v, used, SortedDevs(DOMAIN used), EmptyMap))

----------------------------------------------------------------------------
(* vg.rs: commit                                                           *)

(* bytes of the serialized metadata: the fixed keys, and what each PV and  *)
(* each LV adds to the text                                                *)
TextBaseLen == 500

TextPvLen == 300

TextLvLen == 400

TextLen(v) ==
    TextBaseLen + TextPvLen * Cardinality(DOMAIN v.pvs)
                + TextLvLen * Cardinality(DOMAIN v.lvs)

(* to_textmap(vg) wrapped under the VG's name in disk_map *)
to_textmap(v) ==
    [name |-> v.name, seqno |-> v.seqno, extent_size |-> v.extent_size,
     physical_volumes |-> v.pvs, logical_volumes |-> v.lvs]

(* Device::path: the device is listed in /proc/partitions *)
path_is_some(dev, parts) == dev \in parts

(* VG::commit, its loop over self.pvs.values() *)
RECURSIVE commit_loop(_, _, _, _)
commit_loop(devs, dsk, parts, text) ==
    IF devs = <<>> THEN [status |-> "ok", disk |-> dsk]
    ELSE IF ~path_is_some(devs[1], parts)
      THEN commit_loop(Tail(devs), dsk, parts, text)
    ELSE With(write_metadata(PvHeaderOf(devs[1]).metadata_areas,
                             dsk[devs[1]], text), LAMBDA w :
         With([dsk EXCEPT ![devs[1]] = w.disk], LAMBDA d2 :
            IF w.status = "ok" THEN commit_loop(Tail(devs), d2, parts, text)
            ELSE [status |-> w.status, disk |-> d2]))

(* VG::commit *)
commit(v, dsk, parts) ==
    With([v EXCEPT !.seqno = v.seqno + 1], LAMBDA v1 :
    With(TextBuf(to_textmap(v1), TextLen(v1)), LAMBDA text :
    With(commit_loop(SortedDevs(DOMAIN v1.pvs), dsk, parts, text), LAMBDA w :
      [status |-> w.status, vg |-> v1, disk |-> w.disk])))

----------------------------------------------------------------------------
(* vg.rs: the operations.  Each gives the status it returns ("ok", "err",  *)
(* or "panic" when the process aborts), the words of its error with the    *)
(* name they carry, and the state it leaves.                               *)

Outcome(status, why, v, dsk, dmst) ==
    [status |-> status, why |-> why, vg |-> v, disk |-> dsk, dm |-> dmst]

(* self.commit() as the last call of an operation: its result is the       *)
(* operation's, the VG and the disks are left as commit leaves them        *)
Committed(v, dsk, dmst, parts) ==
    With(commit(v, dsk, parts), LAMBDA c :
         Outcome(c.status, <<"commit">>, c.vg, c.disk, dmst))

(* u64 arithmetic below zero wraps when the build has no overflow checks.  *)
(* (2^64 + a) / extent_size for a < 0 and extent_size a power of two lies  *)
(* beyond the integers of the model: it is kept as its distance below      *)
(* 2^64 / extent_size.                                                     *)
WrappedQuotient(a, extent_size) ==
    [below_2_64_over |-> extent_size, by |-> (extent_size - 1 - a) \div extent_size]

(* VG::pv_add, its sizes in sectors *)
pv_add_sizes(pvh, extent_size) ==
    With(pvh.size \div SECTOR_SIZE, LAMBDA dev_size_sectors :
    With(align_to(pvh.data_areas[1].offset \div SECTOR_SIZE, extent_size),
         LAMBDA pe_start_sectors :
    With(IF Len(pvh.metadata_areas) >= 2
         THEN pvh.metadata_areas[2].size \div SECTOR_SIZE ELSE 0,
         LAMBDA mda1_size_sectors :
      [dev_size_sectors  |-> dev_size_sectors,
       pe_start_sectors  |-> pe_start_sectors,
       mda1_size_sectors |-> mda1_size_sectors,
       area_size_sectors |-> dev_size_sectors - pe_start_sectors
                               - mda1_size_sectors])))

(* pv_add without its read of the PV's metadata *)
pv_add_unread(v, dsk, dmst, parts, dev, overflow_checks) ==
    With(PvHeaderOf(dev), LAMBDA pvh :
    IF dev \in DOMAIN v.pvs
      THEN Outcome("err", <<"PV already in VG">>, v, dsk, dmst)
    ELSE IF pvh.data_areas = <<>>
      THEN Outcome("err", <<"Could not find data area in PV">>, v, dsk, dmst)
    ELSE
    With(pv_add_sizes(pvh, v.extent_size), LAMBDA sz :
    IF sz.area_size_sectors < 0 /\ overflow_checks
      THEN Outcome("panic", <<"attempt to subtract with overflow">>,
                   v, dsk, dmst)
    ELSE Committed(
           [v EXCEPT !.pvs = MapInsert(v.pvs, dev,
              [device |-> dev, dev_size |-> sz.dev_size_sectors,
               pe_start |-> sz.pe_start_sectors,
               pe_count |->
                 IF sz.area_size_sectors < 0
                 THEN WrappedQuotient(sz.area_size_sectors, v.extent_size)
                 ELSE sz.area_size_sectors \div v.extent_size])],
           dsk, dmst, parts)))

(* VG::pv_add.  overflow_checks: the build panics on integer overflow (a   *)
(* debug build) or wraps (a release build).                                *)
pv_add(v, dsk, dmst, parts, dev, overflow_checks) ==
    With(PvHeaderOf(dev), LAMBDA pvh :
    With(read_metadata(pvh.metadata_areas, dsk[dev]), LAMBDA md :
    IF dev \in DOMAIN v.pvs
      THEN Outcome("err", <<"PV already in VG">>, v, dsk, dmst)
    ELSE IF md.status = "panic" THEN Outcome("panic", <<"assert">>, v, dsk, dmst)
    ELSE IF md.status = "ok"
      THEN Outcome("err", <<"PV already in VG", md.map.name>>, v, dsk, dmst)
    ELSE IF pvh.data_areas = <<>>
      THEN Outcome("err", <<"Could not find data area in PV">>, v, dsk, dmst)
    ELSE
    With(pv_add_sizes(pvh, v.extent_size), LAMBDA sz :
    IF sz.area_size_sectors < 0 /\ overflow_checks
      THEN Outcome("panic", <<"attempt to subtract with overflow">>,
                   v, dsk, dmst)
    ELSE Committed(
           [v EXCEPT !.pvs = MapInsert(v.pvs, dev,
              [device |-> dev, dev_size |-> sz.dev_size_sectors,
               pe_start |-> sz.pe_start_sectors,
               pe_count |->
                 IF sz.area_size_sectors < 0
                 THEN WrappedQuotient(sz.area_size_sectors, v.extent_size)
                 ELSE sz.area_size_sectors \div v.extent_size])],
           dsk, dmst, parts))))

(* the LVs, in name order, that have a segment with a stripe on dev *)
LvsUsing(v, dev) ==
    SelectSeq(SortedNames(DOMAIN v.lvs),
              LAMBDA n : \E i \in 1 .. Len(v.lvs[n].segments) :
                  \E j \in 1 .. Len(pv_dependencies(v.lvs[n].segments[i])) :
                      pv_dependencies(v.lvs[n].segments[i])[j] = dev)

MapRemove(m, k) == [x \in DOMAIN m \ {k} |-> m[x]]

(* pv_remove without its loop over the LVs *)
pv_remove_unchecked(v, dsk, dmst, parts, dev) ==
    IF dev \notin DOMAIN v.pvs
      THEN Outcome("err", <<"Could not remove PV">>, v, dsk, dmst)
    ELSE Committed([v EXCEPT !.pvs = MapRemove(v.pvs, dev)], dsk, dmst, parts)

(* VG::pv_remove *)
pv_remove(v, dsk, dmst, parts, dev) ==
    IF LvsUsing(v, dev) # <<>>
      THEN Outcome("err", <<"PV in use by LV", LvsUsing(v, dev)[1]>>,
                   v, dsk, dmst)
    ELSE IF dev \notin DOMAIN v.pvs
      THEN Outcome("err", <<"Could not remove PV">>, v, dsk, dmst)
    ELSE Committed([v EXCEPT !.pvs = MapRemove(v.pvs, dev)], dsk, dmst, parts)

(* lv_create_linear, its inner loop over one PV's free areas in start      *)
(* order: the first one long enough, where the loop breaks                 *)
RECURSIVE first_fit(_, _, _)
first_fit(starts, areas, extent_size) ==
    IF starts = <<>> THEN None
    ELSE IF areas[starts[1]] >= extent_size
      THEN Some(<<starts[1], areas[starts[1]]>>)
    ELSE first_fit(Tail(starts), areas, extent_size)

(* lv_create_linear, its outer loop over free_areas() in Device order: the *)
(* break leaves the inner loop only, so the scan goes on to the next PV    *)
RECURSIVE scan_free_areas(_, _, _, _)
scan_free_areas(devs, free, extent_size, contig_area) ==
    IF devs = <<>> THEN contig_area
    ELSE LET f == first_fit(SortedNats(DOMAIN free[devs[1]]), free[devs[1]],
                            extent_size)
         IN scan_free_areas(Tail(devs), free, extent_size,
                IF f # None THEN Some(<<devs[1], f[1][1], f[1][2]>>)
                ELSE contig_area)

(* name.replace("-", "--") *)
RECURSIVE EscapeDash(_)
EscapeDash(name) ==
    IF name = <<>> THEN <<>>
    ELSE (IF name[1] = "-" THEN <<"-", "-">> ELSE <<name[1]>>)
           \o EscapeDash(Tail(name))

(* format!("{}-{}", vg.replace("-", "--"), lv.replace("-", "--")) *)
dm_name(vg_name, lv_name) ==
    EscapeDash(vg_name) \o <<"-">> \o EscapeDash(lv_name)

(* what the device-mapper may do to a call: DM::new() fails, the call on   *)
(* the device fails, or all goes well                                      *)
DmEnv == {"ok", "new_fails", "call_fails"}

DmNames(dmst) == {x.name : x \in dmst}

(* VG::lv_create_linear; under "commit_fails" the first write of the     *)
(* commit returns an I/O error                                             *)
lv_create_linear(v, dsk, dmst, parts, name, extent_size, env) ==
    IF name \in DOMAIN v.lvs
      THEN Outcome("err", <<"LV already exists">>, v, dsk, dmst)
    ELSE IF free_areas_panics(v)
      THEN Outcome("panic", <<"area map name refers to nonexistent PV">>,
                   v, dsk, dmst)
    ELSE
    With(free_areas(v), LAMBDA free :
    With(scan_free_areas(SortedDevs(DOMAIN free), free, extent_size, None),
         LAMBDA contig_area :
    IF contig_area = None
      THEN Outcome("err", <<"no contiguous area for new LV">>, v, dsk, dmst)
    ELSE
    LET dev        == contig_area[1][1]
        area_start == contig_area[1][2]
        len        == contig_area[1][3]
        segment    == [start_extent |-> 0, extent_count |-> extent_size,
                       stripes |-> <<<<dev, area_start>>>>,
                       stripe_size |-> None]
        table      == <<[start |-> 0, length |-> len, target |-> "linear",
                         device |-> dev, offset |-> area_start]>>
        lv         == [name |-> name, segments |-> <<segment>>]
        lv_name    == dm_name(v.name, lv.name)
        dm1        == dmst \cup {[name |-> lv_name, table |-> table]}
    IN
    IF env = "new_fails" THEN Outcome("err", <<"DM::new">>, v, dsk, dmst)
    ELSE IF env = "call_fails" \/ lv_name \in DmNames(dmst)
      THEN Outcome("panic", <<"LinearDev::setup unwrap">>, v, dsk, dmst)
    ELSE IF env = "commit_fails"
      THEN Outcome("err", <<"commit">>,
                   [v EXCEPT !.lvs = MapInsert(v.lvs, name, lv),
                             !.seqno = v.seqno + 1], dsk, dm1)
    ELSE Committed([v EXCEPT !.lvs = MapInsert(v.lvs, name, lv)],
                   dsk, dm1, parts)))

(* VG::lv_remove; under "commit_fails" the first write of the commit     *)
(* returns an I/O error                                                    *)
lv_remove(v, dsk, dmst, parts, name, env) ==
    IF name \notin DOMAIN v.lvs
      THEN Outcome("err", <<"LV not found in VG">>, v, dsk, dmst)
    ELSE
    LET lv == v.lvs[name]
        v1 == [v EXCEPT !.lvs = MapRemove(v.lvs, name)]
    IN
    IF env = "new_fails" THEN Outcome("err", <<"DM::new">>, v1, dsk, dmst)
    ELSE IF env = "call_fails" \/ lv.name \notin DmNames(dmst)
      THEN Outcome("err", <<"device_suspend">>, v1, dsk, dmst)
    ELSE IF env = "commit_fails"
      THEN Outcome("err", <<"commit">>, [v1 EXCEPT !.seqno = v1.seqno + 1],
                   dsk, {x \in dmst : x.name # lv.name})
    ELSE Committed(v1, dsk, {x \in dmst : x.name # lv.name}, parts)

----------------------------------------------------------------------------
(* The volume group under its operations                                   *)

Idle == [pc |-> "idle"]

(* a device another tool made, under a name an LV of the VG may carry *)
ForeignDm == [name |-> <<"a">>, table |-> <<>>]

(* VG::create before its loop of pv_add, on devices PvHeader::initialize   *)
(* has laid out                                                            *)
Init ==
    /\ disk = [d \in Devices |-> InitializedDisk(d)]
    /\ partitions \in {Devices, Devices \ {DeviceOf(0)}}
    /\ vg = [name |-> VgName, seqno |-> 0, extent_size |-> DEFAULT_EXTENT_SIZE,
             pvs |-> EmptyMap, lvs |-> EmptyMap]
    /\ dm \in {{}, {ForeignDm}}
    /\ res = [op |-> "create", arg |-> <<>>, status |-> "ok", why |-> <<>>,
              mutated |-> TRUE]
    /\ wr = Idle

(* The process is alive and the model's cap on commits is not reached.    *)
(* A call that failed and changed nothing is not followed up: the calls    *)
(* that may follow it are those that may follow the state it was made in,  *)
(* with the same results.                                                  *)
CanCall ==
    /\ res.status # "panic"
    /\ res.status = "err" => res.mutated
    /\ vg.seqno < MaxSeqno
    /\ wr = Idle

Apply(op, arg, o) ==
    /\ vg' = o.vg
    /\ disk' = o.disk
    /\ dm' = o.dm
    /\ res' = [op |-> op, arg |-> arg, status |-> o.status, why |-> o.why,
                mutated |-> (o.vg # vg \/ o.disk # disk \/ o.dm # dm)]
    /\ UNCHANGED <<partitions, wr>>

PvAdd ==
    /\ CanCall
    /\ \E dev \in Devices, overflow_checks \in BOOLEAN :
         Apply("pv_add", <<dev>>,
               pv_add(vg, disk, dm, partitions, dev, overflow_checks))

PvRemove ==
    /\ CanCall
    /\ \E dev \in Devices :
         Apply("pv_remove", <<dev>>, pv_remove(vg, disk, dm, partitions, dev))

LvCreateLinear ==
    /\ CanCall
    /\ \E name \in LvNames, n \in ExtentCounts,
          env \in DmEnv \cup {"commit_fails"} :
         Apply("lv_create_linear", <<name, n>>,
               lv_create_linear(vg, disk, dm, partitions, name, n, env))

LvRemove ==
    /\ CanCall
    /\ \E name \in LvNames, env \in DmEnv \cup {"commit_fails"} :
         Apply("lv_remove", <<name>>,
               lv_remove(vg, disk, dm, partitions, name, env))

Next == PvAdd \/ PvRemove \/ LvCreateLinear \/ LvRemove

Spec == Init /\ [][Next]_vars

----------------------------------------------------------------------------
(* vg.rs: VG::create, then the operations on the VG it returns             *)

MaxCreatePaths == 2

(* the pv_paths of a call: up to MaxCreatePaths devices, in any order *)
PathLists ==
    UNION {[1 .. n -> Devices] : n \in 0 .. MaxCreatePaths}

(* VG::create, its loop "for path in &pv_paths { vg.pv_add(path)?; }" *)
RECURSIVE create_loop(_, _, _, _, _, _)
create_loop(v, dsk, dmst, parts, pv_paths, overflow_checks) ==
    IF pv_paths = <<>> THEN Outcome("ok", <<>>, v, dsk, dmst)
    ELSE With(pv_add(v, dsk, dmst, parts, pv_paths[1], overflow_checks),
              LAMBDA o :
           IF o.status # "ok" THEN o
           ELSE create_loop(o.vg, o.disk, o.dm, parts, Tail(pv_paths),
                            overflow_checks))

(* VG::create: the VG starts at seqno 0 with no PV and no LV *)
create(name, pv_paths, dsk, dmst, parts, overflow_checks) ==
    With([name |-> name, seqno |-> 0, extent_size |-> DEFAULT_EXTENT_SIZE,
          pvs |-> EmptyMap, lvs |-> EmptyMap], LAMBDA v :
    IF pv_paths = <<>>
      THEN Outcome("err", <<"One or more paths to PVs required">>, v, dsk, dmst)
    ELSE create_loop(v, dsk, dmst, parts, pv_paths, overflow_checks))

(* no VG yet, on devices PvHeader::initialize has laid out *)
InitCreate ==
    /\ disk = [d \in Devices |-> InitializedDisk(d)]
    /\ partitions \in {Devices, Devices \ {DeviceOf(0)}}
    /\ vg = [name |-> VgName, seqno |-> 0, extent_size |-> DEFAULT_EXTENT_SIZE,
             pvs |-> EmptyMap, lvs |-> EmptyMap]
    /\ dm = {}
    /\ res = [op |-> "initialize", arg |-> <<>>, status |-> "ok", why |-> <<>>,
              mutated |-> TRUE]
    /\ wr = [pc |-> "no vg"]

(* VG::create: the caller holds the VG it returns; on an error there is    *)
(* none, and what the calls of pv_add wrote stays on the disks             *)
VgCreate ==
    /\ wr.pc = "no vg"
    /\ res.op = "initialize"
    /\ \E pv_paths \in PathLists, overflow_checks \in BOOLEAN :
         \E o \in {create(VgName, pv_paths, disk, dm, partitions,
                          overflow_checks)} :
           /\ vg' = IF o.status = "ok" THEN o.vg ELSE vg
           /\ disk' = o.disk
           /\ dm' = o.dm
           /\ wr' = IF o.status = "ok" THEN Idle ELSE wr
           /\ res' = [op |-> "create", arg |-> <<pv_paths>>,
                      status |-> o.status, why |-> o.why, mutated |-> TRUE]
    /\ UNCHANGED partitions

NextCreate == VgCreate \/ PvAdd \/ PvRemove \/ LvCreateLinear \/ LvRemove

SpecCreate == InitCreate /\ [][NextCreate]_vars

----------------------------------------------------------------------------
(* PvHeader::initialize and pv_add on one loop device of each size         *)

(* the size a loop device was made with, then a blank device *)
InitPv ==
    /\ \E d \in LoopDevs :
         /\ disk = (d :> Zeros(blkdev_size(d)))
         /\ partitions = {d}
         /\ res = [op |-> "losetup", arg |-> <<d>>, status |-> "ok",
                   why |-> <<>>, mutated |-> TRUE]
    /\ vg = [name |-> VgName, seqno |-> 0, extent_size |-> DEFAULT_EXTENT_SIZE,
             pvs |-> EmptyMap, lvs |-> EmptyMap]
    /\ dm = {}
    /\ wr = [pc |-> "blank"]

(* PvHeader::initialize: "Device too small", or the label and an empty     *)
(* header in each metadata area                                            *)
Initialize ==
    /\ wr.pc = "blank"
    /\ \E d \in DOMAIN disk : \E i \in {initialize(d)} :
         /\ res' = [op |-> "initialize", arg |-> <<d>>, status |-> i.status,
                    why |-> IF i.status = "ok" THEN <<>> ELSE i.why,
                    mutated |-> i.status = "ok"]
         /\ IF i.status = "ok"
            THEN /\ disk' = [disk EXCEPT ![d] =
                               InitMdaHeaders(i.pvh.metadata_areas, disk[d])]
                 /\ wr' = [pc |-> "labelled", pvh |-> i.pvh]
            ELSE /\ disk' = disk
                 /\ wr' = [pc |-> "unlabelled"]
    /\ UNCHANGED <<partitions, vg, dm>>

(* VG::create goes on to pv_add, or pv_add is called again *)
PvAddLoop ==
    /\ wr.pc = "labelled"
    /\ res.status = "ok"
    /\ \E dev \in DOMAIN disk, overflow_checks \in BOOLEAN :
         \E o \in {pv_add(vg, disk, dm, partitions, dev, overflow_checks)} :
           /\ vg' = o.vg
           /\ disk' = o.disk
           /\ dm' = o.dm
           /\ res' = [op |-> "pv_add", arg |-> <<dev>>, status |-> o.status,
                      why |-> o.why,
                      mutated |-> (o.vg # vg \/ o.disk # disk \/ o.dm # dm)]
    /\ UNCHANGED <<partitions, wr>>

NextPv == Initialize \/ PvAddLoop

SpecPv == InitPv /\ [][NextPv]_vars

----------------------------------------------------------------------------
(* pvlabel.rs: one PV's metadata areas under write_metadata, write by      *)
(* write.  Every seek-and-write of the code is one step, and the process   *)
(* may die between any two of them.                                        *)

MaxMdaSectors == 4

MaxTextUnits == 5

MaxMdaWrites == 3

MdaDev == DeviceOf(0)

(* the metadata areas of the PV: one area of 2 .. MaxMdaSectors sectors,   *)
(* or two areas of the largest size                                        *)
MdaArea(first_sector, sectors) ==
    [offset |-> first_sector * SECTOR_SIZE, size |-> sectors * SECTOR_SIZE]

MdaLayouts ==
    {<<MdaArea(8, n)>> : n \in 2 .. MaxMdaSectors}
      \cup {<<MdaArea(8, MaxMdaSectors),
              MdaArea(8 + MaxMdaSectors + 8, MaxMdaSectors)>>}

LayoutSize(areas) == areas[Len(areas)].offset + areas[Len(areas)].size

(* lengths of the serialized metadata, NUL included *)
TextLens == {300 * k : k \in 1 .. MaxTextUnits}

(* what a read of each metadata area finds *)
ReadEach(areas, dev) ==
    [a \in 1 .. Len(areas) |-> read_metadata_area(areas[a], dev)]

(* the first RawLocn of the first area as another tool may have left it:  *)
(* as initialized, or marked "ignore this MDA" with the offset 0 of an     *)
(* area never written or with the offset of a blob                         *)
IgnoredMarks ==
    {None,
     Some([EmptyRawLocn EXCEPT !.ignored = TRUE]),
     Some([InitialRawLocn EXCEPT !.ignored = TRUE])}

InitMda ==
    /\ \E areas \in MdaLayouts, mark \in IgnoredMarks :
         /\ \E hdrs \in {InitMdaHeaders(areas, Zeros(LayoutSize(areas)))} :
              disk = (MdaDev :>
                        IF mark = None THEN hdrs
                        ELSE write_mda_header(areas[1], hdrs, mark[1]).disk)
         /\ wr = [pc |-> "idle", areas |-> areas, k |-> 0, text |-> <<>>,
                  rl |-> InitialRawLocn, written |-> 0, held |-> <<>>,
                  at |-> "idle", fit |-> TRUE, mark |-> mark]
    /\ partitions = {MdaDev}
    /\ vg = [name |-> VgName, seqno |-> 0, extent_size |-> DEFAULT_EXTENT_SIZE,
             pvs |-> EmptyMap, lvs |-> EmptyMap]
    /\ dm = {}
    /\ res = [op |-> "initialize", arg |-> <<>>, status |-> "ok", why |-> <<>>]

(* write_metadata returns *)
Finish(status, dsk) ==
    /\ disk' = dsk
    /\ wr' = [wr EXCEPT !.pc = "idle"]
    /\ res' = [res EXCEPT !.status = status]

(* write_metadata goes on to the next metadata area, or returns Ok *)
NextArea(dsk) ==
    IF wr.k = Len(wr.areas) THEN Finish("ok", dsk)
    ELSE /\ disk' = dsk
         /\ wr' = [wr EXCEPT !.pc = "read_header", !.k = wr.k + 1]
         /\ UNCHANGED res

(* the text fits in the ring of every area: size minus the header sector *)
FitsAll(areas, n) ==
    \A a \in 1 .. Len(areas) : n <= areas[a].size - MDA_HEADER_SIZE

(* commit bumps seqno and serializes; write_metadata is entered.  held is  *)
(* what each area gave to a reader before this write, fit tells whether    *)
(* every text written so far fitted in the ring.                           *)
WriteBegin ==
    /\ wr.pc = "idle"
    /\ res.status # "panic"
    /\ vg.seqno < MaxMdaWrites
    /\ \E n \in TextLens :
         /\ vg' = [vg EXCEPT !.seqno = vg.seqno + 1]
         /\ wr' = [wr EXCEPT !.pc = "read_header", !.k = 1,
                             !.text = TextBuf(to_textmap(vg'), n),
                             !.held = ReadEach(wr.areas, disk[MdaDev]),
                             !.written = 0,
                             !.fit = wr.fit /\ FitsAll(wr.areas, n)]
         /\ res' = [op |-> "write_metadata", arg |-> <<n>>,
                    status |-> "running", why |-> <<>>]
    /\ UNCHANGED <<disk, partitions, dm>>

(* write_metadata: read_mda_header, the choice of rl, the two assert_eq!  *)
WriteReadHeader ==
    /\ wr.pc = "read_header"
    /\ \E h \in {read_mda_header(wr.areas[wr.k], disk[MdaDev])} :
         IF h.status # "ok" THEN Finish(h.status, disk)
         ELSE \E rl \in {IF h.rl = None THEN InitialRawLocn ELSE h.rl[1]} :
           IF rl.ignored THEN NextArea(disk)
           ELSE IF start_off(wr.areas[wr.k], rl) % SECTOR_SIZE # 0
                   \/ tail_space(wr.areas[wr.k], rl) % SECTOR_SIZE # 0
             THEN Finish("panic", disk)
           ELSE /\ wr' = [wr EXCEPT !.pc = "payload_first", !.rl = rl]
                /\ UNCHANGED <<disk, res>>
    /\ UNCHANGED <<partitions, vg, dm>>

(* write_metadata: the write at start_off *)
WritePayloadFirst ==
    /\ wr.pc = "payload_first"
    /\ \E w \in {write_payload_first(wr.areas[wr.k], disk[MdaDev], wr.rl,
                                     wr.text)} :
         IF ~w.ok THEN Finish("err", [disk EXCEPT ![MdaDev] = w.disk])
         ELSE /\ disk' = [disk EXCEPT ![MdaDev] = w.disk]
              /\ wr' = [wr EXCEPT !.pc = "payload_rest", !.written = w.written]
              /\ UNCHANGED res
    /\ UNCHANGED <<partitions, vg, dm>>

(* write_metadata: the write of what did not fit, at sector 1 *)
WritePayloadRest ==
    /\ wr.pc = "payload_rest"
    /\ \E w \in {write_payload_rest(wr.areas[wr.k], disk[MdaDev], wr.written,
                                    wr.text)} :
         IF ~w.ok THEN Finish("err", [disk EXCEPT ![MdaDev] = w.disk])
         ELSE /\ disk' = [disk EXCEPT ![MdaDev] = w.disk]
              /\ wr' = [wr EXCEPT !.pc = "header"]
              /\ UNCHANGED res
    /\ UNCHANGED <<partitions, vg, dm>>

(* write_metadata: write_mda_header with the new RawLocn *)
WriteHeader ==
    /\ wr.pc = "header"
    /\ \E w \in {write_mda_header(wr.areas[wr.k], disk[MdaDev],
                                  new_rl(wr.areas[wr.k], wr.rl, wr.text))} :
         IF ~w.ok THEN Finish("err", [disk EXCEPT ![MdaDev] = w.disk])
         ELSE NextArea([disk EXCEPT ![MdaDev] = w.disk])
    /\ UNCHANGED <<partitions, vg, dm>>

(* the process dies inside write_metadata; what reached the disk stays *)
Crash ==
    /\ wr.pc \in {"read_header", "payload_first", "payload_rest", "header"}
    /\ wr' = [wr EXCEPT !.pc = "crashed", !.at = wr.pc]
    /\ res' = [res EXCEPT !.status = "crashed"]
    /\ UNCHANGED <<disk, partitions, vg, dm>>

(* the seek, read or write the step is about to make returns an error:     *)
(* try! hands it up, write_metadata and commit return Err, and the disk    *)
(* keeps what the earlier steps wrote.  at keeps the step that failed.     *)
IoError ==
    /\ wr.pc \in {"read_header", "payload_first", "payload_rest", "header"}
    /\ wr' = [wr EXCEPT !.pc = "idle", !.at = wr.pc]
    /\ res' = [res EXCEPT !.status = "err"]
    /\ UNCHANGED <<disk, partitions, vg, dm>>

(* a new process calls read_metadata on the PV (got); why is what a read   *)
(* of each metadata area by itself finds                                   *)
ReadBack ==
    /\ wr.pc = "crashed"
    /\ wr' = [wr EXCEPT !.pc = "halted"]
    /\ res' = [op |-> "read_metadata", arg |-> <<>>, status |-> "ok",
               why |-> ReadEach(wr.areas, disk[MdaDev]),
               got |-> read_metadata(wr.areas, disk[MdaDev])]
    /\ UNCHANGED <<disk, partitions, vg, dm>>

NextMda ==
    \/ WriteBegin
    \/ WriteReadHeader
    \/ WritePayloadFirst
    \/ WritePayloadRest
    \/ WriteHeader
    \/ Crash
    \/ IoError
    \/ ReadBack

SpecMda == InitMda /\ [][NextMda]_vars

----------------------------------------------------------------------------
(* pvlabel.rs: a process in read_metadata while another is in              *)
(* write_metadata on the same metadata area.  Every seek-and-read and      *)
(* every seek-and-write is one step.  wr.rd is the reader: its position,   *)
(* the RawLocn and the text it has read, what it returned, and the blobs   *)
(* before (pre) and after (post) the write it may overlap.                 *)

RaceArea == wr.areas[1]

InitRace ==
    /\ \E areas \in {l \in MdaLayouts : Len(l) = 1} :
         /\ disk = (MdaDev :> InitMdaHeaders(areas, Zeros(LayoutSize(areas))))
         /\ wr = [pc |-> "idle", areas |-> areas, k |-> 0, text |-> <<>>,
                  rl |-> InitialRawLocn, written |-> 0, held |-> <<>>,
                  at |-> "idle", fit |-> TRUE, rd |-> [pc |-> "idle"]]
    /\ partitions = {MdaDev}
    /\ vg = [name |-> VgName, seqno |-> 0, extent_size |-> DEFAULT_EXTENT_SIZE,
             pvs |-> EmptyMap, lvs |-> EmptyMap]
    /\ dm = {}
    /\ res = [op |-> "initialize", arg |-> <<>>, status |-> "ok", why |-> <<>>]

(* the writer enters write_metadata; a read overlaps one write at most *)
RaceWriteBegin ==
    /\ wr.rd.pc \in {"idle", "done"}
    /\ WriteBegin

(* read_metadata returns *)
RdDone(result) ==
    wr' = [wr EXCEPT !.rd = [wr.rd EXCEPT !.pc = "done", !.result = result]]

(* read_metadata is entered: read_mda_header and the choice of rl *)
RdHeader ==
    /\ wr.rd.pc \in {"idle", "done"}
    /\ \E h \in {read_mda_header(RaceArea, disk[MdaDev])} :
       \E rd \in {[pc     |-> "text_first",
                   rl     |-> IF h.rl = None THEN InitialRawLocn ELSE h.rl[1],
                   text   |-> <<>>,
                   result |-> <<>>,
                   pre    |-> IF wr.pc = "idle"
                              THEN read_metadata_area(RaceArea, disk[MdaDev])
                              ELSE wr.held[1],
                   post   |-> IF wr.pc = "idle"
                              THEN read_metadata_area(RaceArea, disk[MdaDev])
                              ELSE [status |-> "ok", map |-> to_textmap(vg)]]} :
         IF h.status # "ok"
           THEN wr' = [wr EXCEPT !.rd = [rd EXCEPT !.pc = "done",
                          !.result = [status |-> h.status, map |-> <<>>]]]
         ELSE IF h.rl = None \/ rd.rl.ignored
           THEN wr' = [wr EXCEPT !.rd = [rd EXCEPT !.pc = "done",
                          !.result = [status |-> "err", map |-> <<>>]]]
         ELSE IF RaceArea.size < rd.rl.offset
           THEN wr' = [wr EXCEPT !.rd = [rd EXCEPT !.pc = "done",
                          !.result = [status |-> "panic", map |-> <<>>]]]
         ELSE wr' = [wr EXCEPT !.rd = rd]
    /\ UNCHANGED <<disk, partitions, vg, dm, res>>

(* read_metadata: the read at rl.offset *)
RdTextFirst ==
    /\ wr.rd.pc = "text_first"
    /\ wr' = [wr EXCEPT !.rd = [wr.rd EXCEPT
                !.pc = IF Min(RaceArea.size - wr.rd.rl.offset, wr.rd.rl.size)
                            # wr.rd.rl.size
                       THEN "text_rest" ELSE "check",
                !.text = read_text_first(RaceArea, disk[MdaDev], wr.rd.rl)]]
    /\ UNCHANGED <<disk, partitions, vg, dm, res>>

(* read_metadata: the read at sector 1 of a blob that wraps *)
RdTextRest ==
    /\ wr.rd.pc = "text_rest"
    /\ wr' = [wr EXCEPT !.rd = [wr.rd EXCEPT
                !.pc = "check",
                !.text = read_text_rest(RaceArea, disk[MdaDev], wr.rd.rl,
                                        wr.rd.text)]]
    /\ UNCHANGED <<disk, partitions, vg, dm, res>>

(* read_metadata: the checksum comparison and buf_to_textmap *)
RdCheck ==
    /\ wr.rd.pc = "check"
    /\ RdDone(check_text(wr.rd.rl, wr.rd.text))
    /\ UNCHANGED <<disk, partitions, vg, dm, res>>

NextRace ==
    \/ RaceWriteBegin
    \/ WriteReadHeader
    \/ WritePayloadFirst
    \/ WritePayloadRest
    \/ WriteHeader
    \/ RdHeader
    \/ RdTextFirst
    \/ RdTextRest
    \/ RdCheck

SpecRace == InitRace /\ [][NextRace]_vars

----------------------------------------------------------------------------
(* Properties of the metadata write (SpecMda)                              *)

(* the write of area wr.k died with payload on the disk and the header     *)
(* not yet rewritten, and the new process has read the areas               *)
ReadAfterTornWrite ==
    /\ res.op = "read_metadata"
    /\ wr.at \in {"payload_rest", "header"}

(* C1: when a write to a metadata area that held a valid blob is           *)
(* interrupted after payload bytes were written and before the header is   *)
(* rewritten, a later read of that area returns the blob it held before,   *)
(* whole and with a matching CRC.                                          *)
C1_CrashKeepsCommittedBlob ==
    (ReadAfterTornWrite /\ wr.held[wr.k].status = "ok")
      => res.why[wr.k] = wr.held[wr.k]

(* a write that started at sector 1, as every write to a fresh ring does,  *)
(* was torn and the blob the area held no longer reads                     *)
C1_TornWriteSeen ==
    /\ ReadAfterTornWrite
    /\ wr.held[wr.k].status = "ok"
    /\ start_off(wr.areas[wr.k], wr.rl) = MDA_HEADER_SIZE
    /\ res.why[wr.k].status = "err"

(* C2: the start offset of every payload write is at least 512 and less    *)
(* than the size of the area, and the RawLocn stored by a write never has  *)
(* offset 0, the mark of an empty slot.                                    *)
C2_StartSkipsHeaderSector ==
    /\ wr.pc = "payload_first"
         => /\ start_off(wr.areas[wr.k], wr.rl) >= MDA_HEADER_SIZE
            /\ start_off(wr.areas[wr.k], wr.rl) < wr.areas[wr.k].size
    /\ wr.pc = "header"
         => new_rl(wr.areas[wr.k], wr.rl, wr.text).offset # 0

(* the payload is about to be written over the header sector *)
C2_StartAtZero ==
    /\ wr.pc = "payload_first"
    /\ wr.held[wr.k].status = "ok"
    /\ start_off(wr.areas[wr.k], wr.rl) = 0

(* write_metadata has returned Ok *)
WriteDone ==
    res.op = "write_metadata" /\ res.status = "ok" /\ wr.pc = "idle"

(* C3: after every write of a sequence of writes whose texts each fit in   *)
(* the ring, a read of each metadata area returns the text just written,   *)
(* its CRC matching.                                                       *)
C3_LastBlobReadable ==
    (WriteDone /\ wr.fit)
      => \A a \in 1 .. Len(wr.areas) :
           read_metadata_area(wr.areas[a], disk[MdaDev])
             = [status |-> "ok", map |-> to_textmap(vg)]

(* every text fitted, the write returned Ok, and no area gives metadata *)
C3_BlobLost ==
    /\ WriteDone
    /\ wr.fit
    /\ read_metadata(wr.areas, disk[MdaDev]).status = "err"

----------------------------------------------------------------------------
(* Properties of the volume group (Spec)                                   *)

(* the extents <<device, extent>> a segment, and an LV, lie on *)
SegmentExtents(seg) ==
    UNION {{<<seg.stripes[j][1], e>> :
              e \in seg.stripes[j][2]
                      .. seg.stripes[j][2] + seg.extent_count - 1} :
           j \in 1 .. Len(seg.stripes)}

ExtentsOf(lv) ==
    UNION {SegmentExtents(lv.segments[i]) : i \in 1 .. Len(lv.segments)}

(* the extents some LV of the VG lies on *)
UsedExtents(v) == UNION {ExtentsOf(v.lvs[n]) : n \in DOMAIN v.lvs}

(* every MDA of every PV of the VG reads back the VG's seqno *)
AllMdasRead(v, dsk) ==
    \A d \in DOMAIN v.pvs :
      \A a \in 1 .. Len(PvHeaderOf(d).metadata_areas) :
        \E r \in {read_metadata_area(PvHeaderOf(d).metadata_areas[a], dsk[d])} :
          r.status = "ok" /\ r.map.seqno = v.seqno

(* C4: every commit leaves VG.seqno greater than it was, and after a       *)
(* commit that returns Ok every MDA of every PV of the VG reads back       *)
(* metadata with the VG's new seqno.                                       *)
C4_SeqnoMonotone ==
    [][res'.why = <<"commit">>
         => /\ vg'.seqno > vg.seqno
            /\ res'.status = "ok" => AllMdasRead(vg', disk')]_vars

(* every PV has a path, commit returned Ok, and an MDA does not read back *)
(* the new seqno                                                          *)
C4_StaleMda ==
    /\ res.why = <<"commit">>
    /\ res.status = "ok"
    /\ partitions = Devices
    /\ ~AllMdasRead(vg, disk)

(* the stripes of the LV are on PVs of the VG, inside their extents *)
StripesInside(v, lv) ==
    \A i \in 1 .. Len(lv.segments) :
      \A j \in 1 .. Len(lv.segments[i].stripes) :
        \E st \in {lv.segments[i].stripes[j]} :
          /\ st[1] \in DOMAIN v.pvs
          /\ st[2] >= 0
          /\ st[2] + lv.segments[i].extent_count <= v.pvs[st[1]].pe_count

(* C5: after successful calls every stripe of every LV is on a PV of the   *)
(* VG, lies inside [0, pe_count) of that PV, and shares no extent with     *)
(* another LV.                                                             *)
C5_StripesWellPlaced ==
    res.status = "ok"
      => /\ \A n \in DOMAIN vg.lvs : StripesInside(vg, vg.lvs[n])
         /\ \A n, m \in DOMAIN vg.lvs :
              n # m => ExtentsOf(vg.lvs[n]) \cap ExtentsOf(vg.lvs[m]) = {}

(* two LVs share an extent *)
C5_Overlap ==
    /\ res.status = "ok"
    /\ \E n, m \in DOMAIN vg.lvs :
         n # m /\ ExtentsOf(vg.lvs[n]) \cap ExtentsOf(vg.lvs[m]) # {}

RECURSIVE SumLens(_, _)
SumLens(starts, m) ==
    IF starts = <<>> THEN 0 ELSE m[starts[1]] + SumLens(Tail(starts), m)

(* the total length of the ranges of a {start: len} map *)
TotalLen(m) == SumLens(SortedNats(DOMAIN m), m)

(* the extents of the ranges of a {start: len} map *)
RangeExtents(m) == UNION {s .. s + m[s] - 1 : s \in DOMAIN m}

MapGet(m, k) == IF k \in DOMAIN m THEN m[k] ELSE EmptyMap

(* C6: for every PV of the VG the lengths of its used ranges and of the    *)
(* ranges free_areas gives for it add up to pe_count, no extent is both    *)
(* used and free, and a PV with all its extents used has no free range.    *)
C6_AreaAlgebra ==
    ~free_areas_panics(vg)
      => \A d \in DOMAIN vg.pvs :
           \E used \in {MapGet(used_areas(vg), d)},
              free \in {MapGet(free_areas(vg), d)} :
             /\ TotalLen(used) + TotalLen(free) = vg.pvs[d].pe_count
             /\ RangeExtents(used) \cap RangeExtents(free) = {}
             /\ RangeExtents(used) = 0 .. vg.pvs[d].pe_count - 1
                  => RangeExtents(free) = {}

(* a PV with every extent used is given as wholly free *)
C6_FullPvFree ==
    /\ ~free_areas_panics(vg)
    /\ \E d \in DOMAIN vg.pvs :
         /\ RangeExtents(MapGet(used_areas(vg), d)) = 0 .. vg.pvs[d].pe_count - 1
         /\ MapGet(free_areas(vg), d) = (0 :> vg.pvs[d].pe_count)

(* the call that has just returned is lv_create_linear, and it returned Ok *)
LvCreated == res'.op = "lv_create_linear" /\ res'.status = "ok"

(* the free ranges <<device, start>> of at least n extents *)
Fitting(free, n) ==
    UNION {{<<d, s>> : s \in {x \in DOMAIN free[d] : free[d][x] >= n}} :
           d \in DOMAIN free}

(* p comes before q: by Device, then by start *)
AreaBefore(p, q) == DevLess(p[1], q[1]) \/ (p[1] = q[1] /\ p[2] < q[2])

(* C7: lv_create_linear(name, n) places the LV at the start of the first   *)
(* free range of at least n extents, PVs taken in ascending Device order   *)
(* and the free ranges of a PV in ascending start order.                   *)
C7_FirstFit ==
    [][LvCreated
         => \E fit \in {Fitting(free_areas(vg), res'.arg[2])} :
              /\ vg'.lvs[res'.arg[1]].segments[1].stripes[1] \in fit
              /\ \A q \in fit :
                   q = vg'.lvs[res'.arg[1]].segments[1].stripes[1]
                     \/ AreaBefore(vg'.lvs[res'.arg[1]].segments[1].stripes[1], q)]_vars

(* the first LV of a VG of two empty PVs fits on the first PV and is put  *)
(* on another                                                              *)
C7_LaterPvChosen ==
    /\ res.op = "lv_create_linear"
    /\ res.status = "ok"
    /\ DOMAIN vg.pvs = Devices
    /\ DOMAIN vg.lvs = {res.arg[1]}
    /\ res.arg[2] <= vg.pvs[DeviceOf(0)].pe_count
    /\ vg.lvs[res.arg[1]].segments[1].stripes[1][1] # DeviceOf(0)

(* the n extents from start on device d are extents of a PV of the VG that *)
(* no LV lies on                                                           *)
RangeFree(v, d, start, n) ==
    /\ d \in DOMAIN v.pvs
    /\ start >= 0
    /\ start + n <= v.pvs[d].pe_count
    /\ \A e \in start .. start + n - 1 : <<d, e>> \notin UsedExtents(v)

(* C8: after lv_create_linear(name, n) succeeds VG.lvs has exactly one new *)
(* LV, called name, of one segment (start_extent 0, extent_count n, one    *)
(* stripe) lying on extents no LV used before the call; the other LVs and  *)
(* VG.pvs are as they were.                                                *)
C8_AllocatorFrame ==
    [][LvCreated
         => /\ res'.arg[1] \notin DOMAIN vg.lvs
            /\ DOMAIN vg'.lvs = DOMAIN vg.lvs \cup {res'.arg[1]}
            /\ \E lv \in {vg'.lvs[res'.arg[1]]} :
                 /\ lv.name = res'.arg[1]
                 /\ Len(lv.segments) = 1
                 /\ lv.segments[1].start_extent = 0
                 /\ lv.segments[1].extent_count = res'.arg[2]
                 /\ Len(lv.segments[1].stripes) = 1
                 /\ RangeFree(vg, lv.segments[1].stripes[1][1],
                              lv.segments[1].stripes[1][2], res'.arg[2])
            /\ \A m \in DOMAIN vg.lvs : vg'.lvs[m] = vg.lvs[m]
            /\ vg'.pvs = vg.pvs]_vars

(* the LV just created lies on extents of an LV that was there before *)
C8_PlacedOnUsed ==
    /\ res.op = "lv_create_linear"
    /\ res.status = "ok"
    /\ \E m \in DOMAIN vg.lvs \ {res.arg[1]} :
         ExtentsOf(vg.lvs[m]) \cap ExtentsOf(vg.lvs[res.arg[1]]) # {}

(* no PV of the VG has n unused extents in a row *)
NoRoom(v, n) ==
    \A d \in DOMAIN v.pvs :
      \A start \in 0 .. v.pvs[d].pe_count : ~RangeFree(v, d, start, n)

(* C9: lv_create_linear(name, n) on a new name fails for want of space     *)
(* exactly when no PV has n unused extents in a row, and it is rejected    *)
(* when an LV called name exists; either way VG.lvs, VG.seqno, every MDA   *)
(* and the DM devices are as they were.                                    *)
C9_NoSpaceAndDuplicate ==
    [][res'.op = "lv_create_linear"
         => /\ res'.arg[1] \notin DOMAIN vg.lvs
                 => (res'.why = <<"no contiguous area for new LV">>
                       <=> NoRoom(vg, res'.arg[2]))
            /\ res'.arg[1] \in DOMAIN vg.lvs => res'.status = "err"
            /\ (res'.arg[1] \in DOMAIN vg.lvs
                  \/ res'.why = <<"no contiguous area for new LV">>)
                 => /\ vg'.lvs = vg.lvs
                    /\ vg'.seqno = vg.seqno
                    /\ disk' = disk
                    /\ dm' = dm]_vars

(* an LV was created though, without it, no PV had room for it *)
C9_CreatedWithoutRoom ==
    /\ res.op = "lv_create_linear"
    /\ res.status = "ok"
    /\ NoRoom([vg EXCEPT !.lvs = MapRemove(vg.lvs, res.arg[1])], res.arg[2])

(* the LVs with a stripe on device d *)
LvsOn(v, d) == {n \in DOMAIN v.lvs : \E p \in ExtentsOf(v.lvs[n]) : p[1] = d}

(* C10: pv_remove(d) fails with "PV in use by LV" and the name of an LV    *)
(* on d whenever an LV has a stripe on d, leaving VG.pvs, VG.lvs,          *)
(* VG.seqno and every MDA as they were; d leaves VG.pvs, and a commit is   *)
(* made, only when no LV has a stripe on d.                                *)
C10_PvRemoveInUse ==
    [][res'.op = "pv_remove"
         => /\ LvsOn(vg, res'.arg[1]) # {}
                 => /\ res'.status = "err"
                    /\ \E n \in LvsOn(vg, res'.arg[1]) :
                         res'.why = <<"PV in use by LV", n>>
                    /\ vg' = vg
                    /\ disk' = disk
            /\ (vg'.pvs # vg.pvs \/ vg'.seqno # vg.seqno \/ disk' # disk)
                 => /\ LvsOn(vg, res'.arg[1]) = {}
                    /\ res'.arg[1] \in DOMAIN vg.pvs
                    /\ res'.arg[1] \notin DOMAIN vg'.pvs]_vars

(* pv_remove of a PV an LV lies on has just been refused *)
C10_Refused ==
    /\ res.op = "pv_remove"
    /\ res.arg[1] \in DOMAIN vg.pvs
    /\ \E n \in LvsOn(vg, res.arg[1]) : res.why = <<"PV in use by LV", n>>

----------------------------------------------------------------------------
(* Properties of pv_add                                                    *)

(* a read of the PV's metadata areas gives metadata *)
PvCarriesMetadata(dsk, dev) ==
    read_metadata(PvHeaderOf(dev).metadata_areas, dsk[dev]).status = "ok"

(* C11: pv_add returns an error when the device is already a key of        *)
(* VG.pvs and when a read of the PV's metadata succeeds; on either         *)
(* rejection VG.pvs and VG.seqno are as before and no byte of any disk     *)
(* has changed.                                                            *)
C11_PvAddRejects ==
    [][res'.op = "pv_add" =>
         ((res'.arg[1] \in DOMAIN vg.pvs \/ PvCarriesMetadata(disk, res'.arg[1]))
            => /\ res'.status = "err"
               /\ vg'.pvs = vg.pvs
               /\ vg'.seqno = vg.seqno
               /\ disk' = disk)]_vars

(* a PV that is not in the VG was refused for the metadata it carries *)
C11_RefusedForMetadata ==
    /\ res.op = "pv_add"
    /\ res.status = "err"
    /\ res.arg[1] \notin DOMAIN vg.pvs
    /\ res.why = <<"PV already in VG", VgName>>
    /\ PvCarriesMetadata(disk, res.arg[1])

(* the least multiple of a that is not below x *)
AlignUp(x, a) == ((x + a - 1) \div a) * a

(* sectors of the metadata area at the end of the device *)
Mda1Sectors(pvh) ==
    IF Len(pvh.metadata_areas) >= 2
    THEN pvh.metadata_areas[2].size \div SECTOR_SIZE ELSE 0

(* sectors left for data once pe_start and MDA1 are taken off (an integer, *)
(* below zero when they do not fit)                                        *)
DataSectors(pvh, extent_size) ==
    pvh.size \div SECTOR_SIZE
      - AlignUp(pvh.data_areas[1].offset \div SECTOR_SIZE, extent_size)
      - Mda1Sectors(pvh)

(* C12: on every device that PvHeader::initialize accepts, pv_add neither  *)
(* aborts nor takes an unsigned difference below zero, and the PV it       *)
(* inserts has pe_start = align_up(data_area.offset / 512, extent_size),   *)
(* pe_count = (dev_size - pe_start - MDA1_size) / extent_size and          *)
(* pe_count * extent_size <= dev_size - pe_start - MDA1_size, in sectors.  *)
C12_PeCountFits ==
    res.op = "pv_add" =>
      /\ res.status # "panic"
      /\ \A d \in DOMAIN vg.pvs :
           /\ DataSectors(PvHeaderOf(d), vg.extent_size) >= 0
           /\ vg.pvs[d].pe_start =
                AlignUp(PvHeaderOf(d).data_areas[1].offset \div SECTOR_SIZE,
                        vg.extent_size)
           /\ vg.pvs[d].pe_count =
                DataSectors(PvHeaderOf(d), vg.extent_size) \div vg.extent_size
           /\ vg.pvs[d].pe_count * vg.extent_size
                <= vg.pvs[d].dev_size - vg.pvs[d].pe_start
                     - Mda1Sectors(PvHeaderOf(d))

(* initialize accepted the device, pv_add returned Ok, and the data area   *)
(* the PV was given is larger than the device                              *)
C12_Underflow ==
    /\ res.op = "pv_add"
    /\ res.status = "ok"
    /\ \E d \in DOMAIN vg.pvs :
         /\ blkdev_size(d) >= (DEFAULT_MDA_SIZE * 2) + 8 * SECTOR_SIZE
         /\ DataSectors(PvHeaderOf(d), vg.extent_size) < 0

----------------------------------------------------------------------------
(* Properties of VG::create (SpecCreate)                                   *)

(* the seqno of the metadata a new process reads from the PV, if any *)
PersistedSeqno(dsk, d) ==
    With(read_metadata(PvHeaderOf(d).metadata_areas, dsk[d]), LAMBDA m :
         IF m.status = "ok" THEN Some(m.map.seqno) ELSE None)

(* C13: VG::create that returns Ok on a non-empty list of PVs leaves the   *)
(* VG with every PV of the list and at seqno 1; and when create on two PVs *)
(* is followed by one successful lv_create_linear the seqno, in memory and *)
(* as read back from the first PV, is 2.                                   *)
C13_CreatePersistsOnce ==
    [][/\ (res'.op = "create" /\ res'.status = "ok")
            => /\ vg'.seqno = 1
               /\ DOMAIN vg'.pvs = {res'.arg[1][i] : i \in 1 .. Len(res'.arg[1])}
       /\ (/\ res.op = "create" /\ res.status = "ok" /\ Len(res.arg[1]) = 2
           /\ partitions = Devices
           /\ LvCreated)
            => /\ vg'.seqno = 2
               /\ PersistedSeqno(disk', res.arg[1][1]) = Some(2)]_vars

(* create returned Ok on two PVs and the VG is at seqno 2 already *)
C13_CreateOnTwo ==
    /\ res.op = "create"
    /\ res.status = "ok"
    /\ Cardinality(DOMAIN vg.pvs) = 2
    /\ vg.seqno = 2

----------------------------------------------------------------------------
(* Properties of commit                                                    *)

(* the serialized metadata of the VG, as commit hands it to write_metadata *)
TextOf(v) == TextBuf(to_textmap(v), TextLen(v))

(* the header of the area records a blob of the length and checksum of     *)
(* text: write_metadata went through the area to its write_mda_header      *)
AreaWritten(area, dev, text) ==
    With(Slice(ReadAt(dev, area.offset, MDA_HEADER_SIZE), 4, MDA_HEADER_SIZE),
         LAMBDA body :
         /\ IsHdrBody(body)
         /\ HdrField(body).rl_size = BufLen(text)
         /\ HdrField(body).rl_checksum = crc32_calc(text))

(* every metadata area of every PV of the VG was written with the VG's text *)
AllWritten(v, dsk) ==
    \A d \in DOMAIN v.pvs :
      \A a \in 1 .. Len(PvHeaderOf(d).metadata_areas) :
        AreaWritten(PvHeaderOf(d).metadata_areas[a], dsk[d], TextOf(v))

(* C14: when the metadata areas of some PV of the VG were not written with *)
(* the new blob, commit returns an error value; so commit returns Ok only  *)
(* if every metadata area of every PV was written.                         *)
C14_CommitOkOnlyIfWritten ==
    [][(res'.why = <<"commit">> /\ ~AllWritten(vg', disk'))
          => res'.status = "err"]_vars

(* commit returned Ok and a PV of the VG has no path: it was passed over *)
C14_SkippedPv ==
    /\ res.why = <<"commit">>
    /\ res.status = "ok"
    /\ \E d \in DOMAIN vg.pvs : ~path_is_some(d, partitions)
    /\ ~AllWritten(vg, disk)

----------------------------------------------------------------------------
(* Properties of a commit that fails part-way (SpecMda)                    *)

(* write_metadata has returned Err from the step wr.at of area wr.k *)
WriteFailed ==
    res.op = "write_metadata" /\ res.status = "err" /\ wr.pc = "idle"

(* C15: after a commit that failed part-way, every metadata area that held *)
(* a valid blob still gives one on read: the new blob in the areas the     *)
(* write had completed, the previous one in the area it failed in and in   *)
(* those it had not reached; and after a later commit that returns Ok      *)
(* every area gives the blob of that commit, with the newest seqno.        *)
C15_PartialCommitConverges ==
    /\ (WriteFailed /\ wr.fit)
         => \A a \in 1 .. Len(wr.areas) :
              wr.held[a].status = "ok"
                => read_metadata_area(wr.areas[a], disk[MdaDev])
                     = IF a < wr.k
                       THEN [status |-> "ok", map |-> to_textmap(vg)]
                       ELSE wr.held[a]
    /\ (WriteDone /\ wr.at # "idle" /\ wr.fit)
         => \A a \in 1 .. Len(wr.areas) :
              read_metadata_area(wr.areas[a], disk[MdaDev])
                = [status |-> "ok", map |-> to_textmap(vg)]

(* the write of the header failed after a payload that started at sector 1 *)
(* and fitted, and the blob the area held no longer reads                  *)
C15_TornByFailure ==
    /\ WriteFailed
    /\ wr.fit
    /\ wr.at = "header"
    /\ wr.held[wr.k].status = "ok"
    /\ start_off(wr.areas[wr.k], wr.rl) = MDA_HEADER_SIZE
    /\ read_metadata_area(wr.areas[wr.k], disk[MdaDev]).status = "err"

----------------------------------------------------------------------------
(* Properties of a read that races a write (SpecRace)                      *)

(* read_metadata has returned, from an area that held a valid blob when    *)
(* the read, and the write it overlapped, began; every text fitted         *)
RaceReadDone ==
    /\ wr.rd.pc = "done"
    /\ wr.rd.pre.status = "ok"
    /\ wr.fit

(* C16: a read of a metadata area that runs while one write to the area is *)
(* in progress returns, however their steps interleave, the whole blob     *)
(* the area held before the write or the whole blob of the write; never    *)
(* an error for a frame whose checksum fails.                              *)
C16_RacingReadNotTorn ==
    RaceReadDone => wr.rd.result \in {wr.rd.pre, wr.rd.post}

(* the reader took the header before the writer's payload reached the      *)
(* area, at sector 1, and the text after: the checksum failed              *)
C16_TornRead ==
    /\ RaceReadDone
    /\ wr.rd.rl.offset = MDA_HEADER_SIZE
    /\ wr.rd.pre # wr.rd.post
    /\ wr.rd.result.status = "err"

----------------------------------------------------------------------------
(* Properties of read_metadata over several metadata areas (SpecMda)       *)

(* the metadata areas whose header and blob are valid *)
ValidAreas == {a \in 1 .. Len(wr.areas) : res.why[a].status = "ok"}

(* C17: read_metadata returns the blob of the first metadata area, in the  *)
(* order of the PV header, whose header and blob are valid, whatever is    *)
(* wrong with the areas before it; it returns an error only when no area   *)
(* is valid.                                                               *)
C17_FirstValidMda ==
    res.op = "read_metadata" =>
      IF ValidAreas = {} THEN res.got.status # "ok"
      ELSE res.got = res.why[CHOOSE a \in ValidAreas :
                               \A b \in ValidAreas : a <= b]

(* the first area holds a blob that fails its checksum, the second a valid *)
(* one, and read_metadata returned an error                                *)
C17_LaterValidSkipped ==
    /\ res.op = "read_metadata"
    /\ Len(wr.areas) = 2
    /\ res.why[1].status = "err"
    /\ res.why[2].status = "ok"
    /\ res.got.status = "err"

(***************************************************************************)
(* The text format: parser.rs.  A text is a sequence of bytes; a token is  *)
(* a tuple whose first element is the variant of Token.                    *)
(***************************************************************************)

Letters == {"a", "b", "c", "d", "g", "s", "t", "v"}

Digits == {"0", "1", "2", "3", "4", "5", "6", "7", "8", "9"}

Whitespace == {" ", "\n"}

IdentStart == Letters \cup {"_", "."}

IdentBytes == Letters \cup Digits \cup {"_", ".", "-"}

(* the first position from cur on whose byte is not in Class; Len + 1 when *)
(* the text ends first                                                     *)
ScanWhile(chars, cur, Class) ==
    CHOOSE i \in cur .. Len(chars) + 1 :
        /\ i = Len(chars) + 1 \/ chars[i] \notin Class
        /\ \A j \in cur .. i - 1 : chars[j] \in Class

I64MaxDigits ==
    <<"9", "2", "2", "3", "3", "7", "2", "0", "3", "6",
      "8", "5", "4", "7", "7", "5", "8", "0", "7">>

I64MinDigits == SubSeq(I64MaxDigits, 1, 18) \o <<"8">>

(* str::parse::<i64>: Some(<<negative, digits without leading zeros>>),    *)
(* None for "-" alone and for a value outside the 64 bits                  *)
parse_i64(s) ==
    LET neg == s[1] = "-"
        ds == IF neg THEN Tail(s) ELSE s
        sig == SubSeq(ds, Min(ScanWhile(ds, 1, {"0"}), Len(ds)), Len(ds))
        limit == IF neg THEN I64MinDigits ELSE I64MaxDigits
    IN  IF ds = <<>> THEN None
        ELSE IF Len(sig) > Len(limit) THEN None
        ELSE IF Len(sig) = Len(limit) /\ NameLess(limit, sig) THEN None
        ELSE Some(<<neg /\ sig # <<"0">>, sig>>)

(* Lexer::next from the state lx = [cursor, next_is_ident]; cursor is the  *)
(* position of the next byte, from 1.  A token that the end of the text    *)
(* interrupts is not returned.                                             *)
Lexer_next(chars, lx) ==
    LET first == ScanWhile(chars, lx.cursor, Whitespace)
        c == chars[first]
        eof == [tok |-> None, panic |-> FALSE,
                lx |-> [lx EXCEPT !.cursor = Len(chars) + 1]]
        one(t) == [tok |-> Some(t), panic |-> FALSE,
                   lx |-> [lx EXCEPT !.cursor = first + 1]]
        quote == ScanWhile(chars, first + 1, {Ascii[i] : i \in 1 .. Len(Ascii)} \ {"\""})
        identEnd == ScanWhile(chars, first + 1, IdentBytes)
        numberEnd == ScanWhile(chars, first + 1, Digits)
        commentEnd == ScanWhile(chars, first + 1, {Ascii[i] : i \in 1 .. Len(Ascii)} \ {"\n"})
        n == parse_i64(SubSeq(chars, first, numberEnd - 1))
    IN  IF first > Len(chars) THEN eof
        ELSE IF c = "{" THEN
            [tok |-> Some(<<"CurlyOpen">>), panic |-> FALSE,
             lx |-> [cursor |-> first + 1, next_is_ident |-> TRUE]]
        ELSE IF c = "}" THEN one(<<"CurlyClose">>)
        ELSE IF c = "\"" THEN
            IF quote > Len(chars) THEN eof
            ELSE [tok |-> Some(<<"String", SubSeq(chars, first + 1, quote - 1)>>),
                  panic |-> FALSE, lx |-> [lx EXCEPT !.cursor = quote + 1]]
        ELSE IF c \in IdentStart \/ (c \in Digits \cup {"-"} /\ lx.next_is_ident) THEN
            IF identEnd > Len(chars) THEN eof
            ELSE [tok |-> Some(<<"Ident", SubSeq(chars, first, identEnd - 1)>>),
                  panic |-> FALSE,
                  lx |-> [cursor |-> identEnd, next_is_ident |-> FALSE]]
        ELSE IF c \in Digits \cup {"-"} THEN
            IF numberEnd > Len(chars) THEN eof
            ELSE IF n = None THEN
                [tok |-> None, panic |-> TRUE, lx |-> [lx EXCEPT !.cursor = numberEnd]]
            ELSE [tok |-> Some(<<"Number", n[1][1], n[1][2]>>), panic |-> FALSE,
                  lx |-> [lx EXCEPT !.cursor = numberEnd]]
        ELSE IF c = "#" THEN
            IF commentEnd > Len(chars) THEN eof
            ELSE [tok |-> Some(<<"Comment", SubSeq(chars, first, commentEnd - 1)>>),
                  panic |-> FALSE, lx |-> [lx EXCEPT !.cursor = commentEnd]]
        ELSE IF c = "[" THEN one(<<"BracketOpen">>)
        ELSE IF c = "]" THEN one(<<"BracketClose">>)
        ELSE IF c = "=" THEN one(<<"Equals">>)
        ELSE IF c = "," THEN one(<<"Comma">>)
        ELSE one(<<"Invalid", c>>)

(* tokens.extend(&mut Lexer::new(&buf)): the tokens up to the first None *)
RECURSIVE LexerTokens(_, _, _)
LexerTokens(chars, lx, tokens) ==
    With(Lexer_next(chars, lx), LAMBDA r :
        IF r.panic THEN [panic |-> TRUE, tokens |-> tokens]
        ELSE IF r.tok = None THEN [panic |-> FALSE, tokens |-> tokens]
        ELSE LexerTokens(chars, r.lx, Append(tokens, r.tok[1])))

(* find_matching_token: the length of the slice from the first token to    *)
(* the end token that closes it, 0 for Err("token mismatch")               *)
find_matching_token(tokens, begin, end) ==
    LET count(i, tag) == Cardinality({j \in 1 .. i : tokens[j][1] = tag})
        closing == {i \in 1 .. Len(tokens) :
                        /\ tokens[i][1] = end
                        /\ count(i, begin) = count(i, end)}
    IN  IF closing = {} THEN 0
        ELSE CHOOSE i \in closing : \A j \in closing : i <= j

IsListItem(tok) == tok[1] \in {"Number", "String", "Comma"}

IsNotComma(tok) == tok[1] # "Comma"

(* get_list: the numbers and strings between the brackets *)
get_list(tokens) ==
    LET inner == SubSeq(tokens, 2, Len(tokens) - 1)
    IN  IF \E i \in 1 .. Len(inner) : ~IsListItem(inner[i])
        THEN [status |-> "err", list |-> <<>>]
        ELSE [status |-> "ok", list |-> SelectSeq(inner, IsNotComma)]

TextErr(status) == [status |-> status, map |-> EmptyMap]

(* get_textmap: the loop over tokens[cur], an index past the end panics *)
RECURSIVE get_textmap(_)
RECURSIVE textmap_loop(_, _, _)
textmap_loop(tokens, cur, ret) ==
    IF cur > Len(tokens) THEN TextErr("panic")
    ELSE IF tokens[cur][1] = "CurlyClose" THEN [status |-> "ok", map |-> ret]
    ELSE IF tokens[cur][1] = "Comment" THEN textmap_loop(tokens, cur + 1, ret)
    ELSE IF tokens[cur][1] # "Ident" THEN TextErr("err")
    ELSE IF cur + 1 > Len(tokens) THEN TextErr("panic")
    ELSE IF tokens[cur + 1][1] = "Equals" THEN
        IF cur + 2 > Len(tokens) THEN TextErr("panic")
        ELSE IF tokens[cur + 2][1] \in {"Number", "String"} THEN
            textmap_loop(tokens, cur + 3, (tokens[cur][2] :> tokens[cur + 2]) @@ ret)
        ELSE IF tokens[cur + 2][1] = "BracketOpen" THEN
            With(find_matching_token(SubSeq(tokens, cur + 2, Len(tokens)),
                                     "BracketOpen", "BracketClose"), LAMBDA n :
                IF n = 0 THEN TextErr("err")
                ELSE With(get_list(SubSeq(tokens, cur + 2, cur + 1 + n)), LAMBDA l :
                    IF l.status # "ok" THEN TextErr("err")
                    ELSE textmap_loop(tokens, cur + 2 + n,
                             (tokens[cur][2] :> <<"List", l.list>>) @@ ret)))
        ELSE TextErr("err")
    ELSE IF tokens[cur + 1][1] = "CurlyOpen" THEN
        With(find_matching_token(SubSeq(tokens, cur + 1, Len(tokens)),
                                 "CurlyOpen", "CurlyClose"), LAMBDA n :
            IF n = 0 THEN TextErr("err")
            ELSE With(get_textmap(SubSeq(tokens, cur + 1, cur + n)), LAMBDA sub :
                IF sub.status # "ok" THEN TextErr(sub.status)
                ELSE textmap_loop(tokens, cur + 1 + n,
                         (tokens[cur][2] :> <<"TextMap", sub.map>>) @@ ret)))
    ELSE TextErr("err")

get_textmap(tokens) == textmap_loop(tokens, 2, EmptyMap)

(* buf_to_textmap on the bytes of a text *)
bytes_to_textmap(buf) ==
    With(LexerTokens(buf, [cursor |-> 1, next_is_ident |-> FALSE], <<>>), LAMBDA l :
        IF l.panic THEN TextErr("panic")
        ELSE get_textmap(<<<<"CurlyOpen">>>> \o l.tokens \o <<<<"CurlyClose">>>>))

(* format!("{}", x) of an i64 *)
FormatNumber(e) == (IF e[2] THEN <<"-">> ELSE <<>>) \o e[3]

(* the entries of a list, joined by ", " *)
RECURSIVE ListToBuf(_)
ListToBuf(list) ==
    IF list = <<>> THEN <<>>
    ELSE (IF list[1][1] = "String" THEN <<"\"">> \o list[1][2] \o <<"\"">>
          ELSE FormatNumber(list[1]))
         \o (IF Len(list) > 1 THEN <<",", " ">> ELSE <<>>)
         \o ListToBuf(Tail(list))

(* textmap_to_buf: the entries in the order of their keys *)
RECURSIVE textmap_to_buf(_)
RECURSIVE EntriesToBuf(_, _)
EntriesToBuf(tm, keys) ==
    IF keys = <<>> THEN <<>>
    ELSE LET k == keys[1]
             v == tm[k]
         IN  (IF v[1] = "String" THEN
                  k \o <<" ", "=", " ", "\"">> \o v[2] \o <<"\"", "\n">>
              ELSE IF v[1] = "Number" THEN
                  k \o <<" ", "=", " ">> \o FormatNumber(v) \o <<"\n">>
              ELSE IF v[1] = "List" THEN
                  k \o <<" ", "=", " ", "[">> \o ListToBuf(v[2]) \o <<"]", "\n">>
              ELSE k \o <<" ", "{", "\n">> \o textmap_to_buf(v[2]) \o <<"}", "\n">>)
             \o EntriesToBuf(tm, Tail(keys))

textmap_to_buf(tm) == EntriesToBuf(tm, SortedNames(DOMAIN tm))

(***************************************************************************)
(* The parser and the serializer applied in turn to a text: the text is    *)
(* parsed, the map is written out, and the result is parsed again.         *)
(***************************************************************************)

MaxPieces == 3

MaxTexts == 3

(* fragments of metadata text: entries, the ends of a section, and the     *)
(* damaged ends of a text                                                  *)
TextPieces ==
    << <<"a", " ", "=", " ", "1", "\n">>,
       <<"0", " ", "=", " ", "-", "1", "\n">>,
       <<".", "b", " ", "=", " ", "\"", "s", "\"", "\n">>,
       <<"-", "c", " ", "=", " ", "[", "1", ",", " ", "\"", "s", "\"", "]", "\n">>,
       <<"t", " ", "{", "\n">>,
       <<"}", "\n">>,
       <<"#", " ", "c", "\n">>,
       <<"a">>,
       <<"-">>,
       <<"\"", "s">>,
       <<"a", " ", "=", " ", "[", "1">>,
       <<"9", "9", "9", "9", "9", "9", "9", "9", "9", "9",
         "9", "9", "9", "9", "9", "9", "9", "9", "9", "9", "\n">> >>

RECURSIVE JoinPieces(_)
JoinPieces(ix) ==
    IF ix = <<>> THEN <<>> ELSE TextPieces[ix[1]] \o JoinPieces(Tail(ix))

TextInputs ==
    {JoinPieces(ix) :
        ix \in UNION {[1 .. n -> 1 .. Len(TextPieces)] : n \in 0 .. MaxPieces}}

InitText ==
    /\ \E x \in TextInputs : wr = [pc |-> "text", bufs |-> <<x>>, maps |-> <<>>]
    /\ res = [op |-> "input", arg |-> <<>>, status |-> "ok", why |-> <<>>,
              mutated |-> FALSE]
    /\ disk = EmptyMap
    /\ partitions = {}
    /\ vg = [name |-> VgName, seqno |-> 0, extent_size |-> DEFAULT_EXTENT_SIZE,
             pvs |-> EmptyMap, lvs |-> EmptyMap]
    /\ dm = {}

(* buf_to_textmap on the last text *)
BufToTextmap ==
    /\ wr.pc = "text"
    /\ \E p \in {bytes_to_textmap(wr.bufs[Len(wr.bufs)])} :
         /\ wr' = [wr EXCEPT !.pc = "map", !.maps = Append(wr.maps, p)]
         /\ res' = [res EXCEPT !.op = "buf_to_textmap", !.status = p.status]
    /\ UNCHANGED <<disk, partitions, vg, dm>>

(* textmap_to_buf on the map that the last text gave *)
TextmapToBuf ==
    /\ wr.pc = "map"
    /\ res.status = "ok"
    /\ Len(wr.bufs) < MaxTexts
    /\ wr' = [wr EXCEPT !.pc = "text",
                        !.bufs = Append(wr.bufs,
                                        textmap_to_buf(wr.maps[Len(wr.maps)].map))]
    /\ res' = [res EXCEPT !.op = "textmap_to_buf"]
    /\ UNCHANGED <<disk, partitions, vg, dm>>

NextText == BufToTextmap \/ TextmapToBuf

SpecText == InitText /\ [][NextText]_vars

(***************************************************************************)
(* Properties of the text format                                           *)
(***************************************************************************)

(* C18: the map that a text parses to is written out as a text that parses *)
(* to the same map, and writing out that second map gives the same text.   *)
C18_TextRoundTrip ==
    /\ Len(wr.maps) >= 2 =>
         /\ wr.maps[2].status = "ok"
         /\ wr.maps[2].map = wr.maps[1].map
    /\ Len(wr.bufs) >= 3 => wr.bufs[3] = wr.bufs[2]

(* a map with a section and a key that begins with a digit was parsed, and *)
(* its own text does not parse                                             *)
C18_OwnTextRejected ==
    /\ Len(wr.maps) >= 2
    /\ wr.maps[1].status = "ok"
    /\ <<"0">> \in DOMAIN wr.maps[1].map
    /\ <<"t">> \in DOMAIN wr.maps[1].map
    /\ wr.maps[2].status = "err"

(* C19: buf_to_textmap returns a map or an error for every text; it never  *)
(* aborts.                                                                 *)
C19_ParseNeverAborts ==
    res.op = "buf_to_textmap" => wr.maps[Len(wr.maps)].status \in {"ok", "err"}

(* a text that opens a section and ends was given to buf_to_textmap, and   *)
(* the call aborted                                                        *)
C19_UnclosedSectionAborts ==
    /\ res.op = "buf_to_textmap"
    /\ wr.bufs = <<TextPieces[5]>>
    /\ wr.maps[1].status = "panic"

(***************************************************************************)
(* The names of device-mapper devices: the devices of logical volumes of   *)
(* several volume groups are created, each under the name hdr_set_name     *)
(* gives it.                                                               *)
(***************************************************************************)

MaxNameLen == 2

MaxDmDevices == 2

(* names over '-' and a letter; nothing in the program restricts the bytes *)
(* of a VG or LV name                                                      *)
DmNameParts == UNION {[1 .. n -> {"-", "a"}] : n \in 1 .. MaxNameLen}

InitDm ==
    /\ dm = {}
    /\ wr = [pc |-> "dm", made |-> {}]
    /\ res = [op |-> "dm", arg |-> <<>>, status |-> "ok", why |-> <<>>,
              mutated |-> FALSE]
    /\ disk = EmptyMap
    /\ partitions = {}
    /\ vg = [name |-> VgName, seqno |-> 0, extent_size |-> DEFAULT_EXTENT_SIZE,
             pvs |-> EmptyMap, lvs |-> EmptyMap]

(* DM::device_create for the LV lv_name of the VG vg_name *)
HdrSetName ==
    /\ Cardinality(wr.made) < MaxDmDevices
    /\ \E vg_name \in DmNameParts, lv_name \in DmNameParts :
         /\ <<vg_name, lv_name>> \notin wr.made
         /\ dm' = dm \cup {[name |-> dm_name(vg_name, lv_name), table |-> <<>>]}
         /\ wr' = [wr EXCEPT !.made = wr.made \cup {<<vg_name, lv_name>>}]
         /\ res' = [res EXCEPT !.op = "device_create",
                               !.arg = <<vg_name, lv_name>>]
    /\ UNCHANGED <<disk, partitions, vg>>

NextDm == HdrSetName

SpecDm == InitDm /\ [][NextDm]_vars

(* C20: two different pairs of a VG name and an LV name never have the     *)
(* same device-mapper name.                                                *)
C20_DmNameInjective ==
    \A p \in wr.made, q \in wr.made :
        dm_name(p[1], p[2]) = dm_name(q[1], q[2]) => p = q

(* the devices of two different pairs were created and there is one name   *)
C20_SharedName ==
    /\ res.op = "device_create"
    /\ Cardinality(wr.made) = 2
    /\ Cardinality(dm) = 1

(***************************************************************************)
(* Properties of the logical volume operations and the device-mapper       *)
(***************************************************************************)

(* the line of a linear target for the first stripe of the LV name, as the *)
(* segment's dm_params places it: sectors from pe_start                    *)
LinearLine(v, name) ==
    LET seg == v.lvs[name].segments[1]
        st  == seg.stripes[1]
    IN  [start |-> 0, length |-> seg.extent_count * v.extent_size,
         target |-> "linear", device |-> st[1],
         offset |-> v.pvs[st[1]].pe_start + st[2] * v.extent_size]

(* C21: the table that lv_create_linear(name, n) loads is one linear       *)
(* target from sector 0, n * extent_size sectors long, on the chosen PV at *)
(* sector pe_start + extent_pos * extent_size.                             *)
C21_LinearTable ==
    (res.op = "lv_create_linear" /\ res.status = "ok") =>
        \E x \in dm :
            /\ x.name = dm_name(vg.name, res.arg[1])
            /\ vg.lvs[res.arg[1]].segments[1].extent_count = res.arg[2]
            /\ x.table = <<LinearLine(vg, res.arg[1])>>

(* an LV was created and its table counts in extents: it is as long as the *)
(* free area that was found and starts at the extent position              *)
C21_TableInExtents ==
    /\ res.op = "lv_create_linear"
    /\ res.status = "ok"
    /\ \E x \in dm :
         /\ x.name = dm_name(vg.name, res.arg[1])
         /\ Len(x.table) = 1
         /\ x.table[1].offset = vg.lvs[res.arg[1]].segments[1].stripes[1][2]
         /\ x.table[1].length < res.arg[2] * vg.extent_size

(* C22: lv_remove(name) suspends and removes the DM device before it       *)
(* drops the LV from VG.lvs and commits: when the suspend fails the LV is  *)
(* still in VG.lvs and nothing was committed, and for a name that is not   *)
(* in VG.lvs it returns an error and leaves the VG and the disks alone.    *)
C22_LvRemoveOrder ==
    [][res'.op = "lv_remove"
         => /\ res'.arg[1] \notin DOMAIN vg.lvs
                 => /\ res'.status = "err"
                    /\ vg' = vg
                    /\ disk' = disk
            /\ (res'.arg[1] \in DOMAIN vg.lvs /\ res'.why = <<"device_suspend">>)
                 => /\ res'.arg[1] \in DOMAIN vg'.lvs
                    /\ vg'.seqno = vg.seqno
                    /\ disk' = disk]_vars

(* the suspend failed in lv_remove and the LV is gone from VG.lvs *)
C22_DroppedBeforeSuspend ==
    /\ res.op = "lv_remove"
    /\ res.status = "err"
    /\ res.why = <<"device_suspend">>
    /\ res.mutated
    /\ res.arg[1] \notin DOMAIN vg.lvs

(* C23: when lv_remove has removed the DM device and the commit fails, the *)
(* commit is made a second time, and a second failure is reported with the *)
(* first: the call that returns a commit error has made two attempts and   *)
(* carries two errors.                                                     *)
C23_CommitRetried ==
    [][(res'.op = "lv_remove" /\ res'.status = "err" /\ res'.why[1] = "commit")
         => /\ vg'.seqno = vg.seqno + 2
            /\ Len(res'.why) = 3]_vars

(* lv_remove removed the DM device, its one commit failed, and the error   *)
(* of that commit is all it returned                                       *)
C23_SingleAttempt ==
    /\ res.op = "lv_remove"
    /\ res.status = "err"
    /\ res.why = <<"commit">>
    /\ res.arg[1] \notin DOMAIN vg.lvs
    /\ res.arg[1] \notin DmNames(dm)

(***************************************************************************)
(* Properties of the label and the metadata areas                          *)
(***************************************************************************)

(* the byte ranges [a, a + n) and [b, b + m) have no byte in common *)
Apart(a, n, b, m) == a + n <= b \/ b + m <= a

(* C24: PvHeader::initialize fails and writes nothing when the device is   *)
(* smaller than 2 * 1 MiB + 4 KiB; otherwise MDA0 is [4 KiB, 1 MiB), the   *)
(* data area starts at 1 MiB, MDA1 is the last 1 MiB, there is no          *)
(* bootloader area and the extension version is 1; the areas are apart     *)
(* from each other and from the label sector, and inside the device.       *)
C24_InitializeLayout ==
    [][res'.op = "initialize" =>
        LET size == blkdev_size(res'.arg[1])
            pvh  == wr'.pvh
            mda0 == pvh.metadata_areas[1]
            mda1 == pvh.metadata_areas[2]
            da0  == pvh.data_areas[1].offset
        IN  IF size < 2 * 1048576 + 4096
            THEN res'.status = "err" /\ disk' = disk
            ELSE /\ res'.status = "ok"
                 /\ pvh.metadata_areas =
                        <<[offset |-> 4096, size |-> 1048576 - 4096],
                          [offset |-> size - 1048576, size |-> 1048576]>>
                 /\ Len(pvh.data_areas) = 1
                 /\ da0 = 1048576
                 /\ pvh.bootloader_areas = <<>>
                 /\ pvh.ext_version = 1
                 /\ Apart(mda0.offset, mda0.size, mda1.offset, mda1.size)
                 /\ Apart(mda0.offset, mda0.size, da0, 1)
                 /\ Apart(mda1.offset, mda1.size, da0, 1)
                 /\ Apart(mda0.offset, mda0.size, 512, 512)
                 /\ Apart(mda1.offset, mda1.size, 512, 512)
                 /\ Apart(da0, 1, 512, 512)
                 /\ mda0.offset >= 0
                 /\ mda1.offset + mda1.size <= size
                 /\ da0 < size]_vars

(* a device of exactly the least size was initialized *)
C24_LeastSize ==
    /\ res.op = "initialize"
    /\ res.status = "ok"
    /\ wr.pc = "labelled"
    /\ wr.pvh.size = 2 * 1048576 + 4096
    /\ wr.pvh.metadata_areas[2].offset = 1048576 + 4096

(***************************************************************************)
(* The label: pvlabel.rs LabelHeader.  The scan buffer is the first        *)
(* LABEL_SCAN_SECTORS sectors, each with the fields from_buf reads: id     *)
(* [0..8], sector [8..16], crc [16..20] and the bytes [20..512], which     *)
(* begin with the offset [20..24].  A u32 is a pair <<high, low>> of       *)
(* 16-bit halves.                                                          *)
(***************************************************************************)

LABEL_SCAN_SECTORS == 4

LABEL_SIZE == 32

MaxSectorField == 3

Half == 256 * 256

(* the offsets a label may hold: the one LabelHeader::initialize writes    *)
(* and the largest multiple of the sector size                             *)
LabelOffsets == {<<0, LABEL_SIZE>>, <<Half - 1, Half - SECTOR_SIZE>>}

LabelBodies == [offset : LabelOffsets, label : {"LVM2 001"}]

LabelSectors ==
    [id : {"LABELONE", "zeros"}, sector : 0 .. MaxSectorField,
     crc : {crc32_calc(b) : b \in LabelBodies}, body : LabelBodies]

(* a + b in 64 bits, a given in halves *)
U32Plus(a, b) == <<a[1] + (a[2] + b) \div Half, (a[2] + b) % Half>>

(* LabelHeader::from_buf from sector x on; the u32 sum panics with         *)
(* overflow checks and wraps without                                       *)
RECURSIVE from_buf(_, _, _)
from_buf(buf, x, overflow_checks) ==
    IF x >= LABEL_SCAN_SECTORS
    THEN [status |-> "err", why |-> <<"Label not found">>]
    ELSE With(buf[x + 1], LAMBDA sec_buf :
        IF sec_buf.id # "LABELONE" THEN from_buf(buf, x + 1, overflow_checks)
        ELSE IF sec_buf.crc # crc32_calc(sec_buf.body)
        THEN [status |-> "err", why |-> <<"Label CRC error">>]
        ELSE IF sec_buf.sector # x
        THEN [status |-> "err", why |-> <<"Sector field should equal sector count">>]
        ELSE With(U32Plus(sec_buf.body.offset, x * SECTOR_SIZE), LAMBDA sum :
            IF sum[1] >= Half /\ overflow_checks
            THEN [status |-> "panic", why |-> <<"attempt to add with overflow">>]
            ELSE [status |-> "ok", why |-> <<>>,
                  label |-> [id |-> sec_buf.id, sector |-> sec_buf.sector,
                             crc |-> sec_buf.crc,
                             offset |-> <<sum[1] % Half, sum[2]>>,
                             label |-> sec_buf.body.label]]))

InitLabel ==
    /\ \E buf \in [1 .. LABEL_SCAN_SECTORS -> LabelSectors] :
         wr = [pc |-> "scan", buf |-> buf]
    /\ res = [op |-> "read", arg |-> <<>>, status |-> "ok", why |-> <<>>,
              mutated |-> FALSE]
    /\ disk = EmptyMap
    /\ partitions = {}
    /\ vg = [name |-> VgName, seqno |-> 0, extent_size |-> DEFAULT_EXTENT_SIZE,
             pvs |-> EmptyMap, lvs |-> EmptyMap]
    /\ dm = {}

FromBuf ==
    /\ wr.pc = "scan"
    /\ \E overflow_checks \in BOOLEAN :
         \E l \in {from_buf(wr.buf, 0, overflow_checks)} :
           /\ res' = [op |-> "from_buf", arg |-> <<>>, status |-> l.status,
                      why |-> l.why, mutated |-> FALSE,
                      got |-> IF l.status = "ok" THEN Some(l.label) ELSE None]
           /\ wr' = [wr EXCEPT !.pc = "scanned"]
    /\ UNCHANGED <<disk, partitions, vg, dm>>

NextLabel == FromBuf

SpecLabel == InitLabel /\ [][NextLabel]_vars

(* sector x of the scan buffer begins with "LABELONE", holds the CRC of    *)
(* its bytes [20..512] and its own position                                *)
Qualifies(buf, x) ==
    /\ buf[x + 1].id = "LABELONE"
    /\ buf[x + 1].crc = crc32_calc(buf[x + 1].body)
    /\ buf[x + 1].sector = x

(* C25: the label search accepts a sector only if it begins with           *)
(* "LABELONE", holds the CRC of its bytes [20..512] and its own position;  *)
(* the offset it reports is position * 512 plus the stored offset; and     *)
(* when no sector qualifies it returns an error.                           *)
C25_LabelSearch ==
    res.op = "from_buf" =>
        /\ res.status = "ok" =>
             \E x \in 0 .. LABEL_SCAN_SECTORS - 1 :
                /\ Qualifies(wr.buf, x)
                /\ res.got[1].sector = x
                /\ res.got[1].offset = U32Plus(wr.buf[x + 1].body.offset, x * 512)
        /\ (\A x \in 0 .. LABEL_SCAN_SECTORS - 1 : ~Qualifies(wr.buf, x))
             => res.status = "err"

(* a label at sector 1 with the large offset was accepted, and the offset  *)
(* reported is below the position of the label                             *)
C25_OffsetWrapped ==
    /\ res.op = "from_buf"
    /\ res.status = "ok"
    /\ res.got[1].sector = 1
    /\ res.got[1].offset = <<0, 0>>

(***************************************************************************)
(* VG::commit step by step: the volume group is built by pv_add, then a    *)
(* commit is followed through its PVs and their metadata areas.  res.why   *)
(* is the list of the writes made so far: device, offset of the metadata   *)
(* area, and what was written.                                             *)
(***************************************************************************)

(* self.pvs.values() backwards *)
pvs_values_rev(v) ==
    [i \in 1 .. Cardinality(DOMAIN v.pvs) |->
        SortedDevs(DOMAIN v.pvs)[Cardinality(DOMAIN v.pvs) + 1 - i]]

(* self.pvs.values(): the PVs in the order of their Device keys *)
pvs_values(v) == SortedDevs(DOMAIN v.pvs)

CommitReturns(status) ==
    /\ wr' = Idle
    /\ res' = [res EXCEPT !.status = status]

(* commit: seqno += 1, the text is built, the loop over the PVs is entered *)
CommitBegin ==
    /\ CanCall
    /\ vg.pvs # EmptyMap
    /\ vg' = [vg EXCEPT !.seqno = vg.seqno + 1]
    /\ wr' = [pc |-> "pv", devs |-> pvs_values(vg),
              text |-> TextBuf(to_textmap(vg'), TextLen(vg'))]
    /\ res' = [op |-> "commit", arg |-> <<>>, status |-> "running",
               why |-> <<>>, mutated |-> TRUE]
    /\ UNCHANGED <<disk, partitions, dm>>

(* commit: the next PV; one without a path is passed over, for the others  *)
(* find_in_dev gives the metadata areas and write_metadata is entered      *)
CommitPv ==
    /\ wr.pc = "pv"
    /\ IF wr.devs = <<>> THEN CommitReturns("ok")
       ELSE IF ~path_is_some(wr.devs[1], partitions)
         THEN wr' = [wr EXCEPT !.devs = Tail(wr.devs)] /\ UNCHANGED res
       ELSE /\ wr' = [pc |-> "area", devs |-> wr.devs, text |-> wr.text,
                      areas |-> PvHeaderOf(wr.devs[1]).metadata_areas]
            /\ UNCHANGED res
    /\ UNCHANGED <<disk, partitions, vg, dm>>

(* write_metadata: the next metadata area, its header and the RawLocn *)
CommitReadHeader ==
    /\ wr.pc = "area"
    /\ IF wr.areas = <<>>
       THEN wr' = [pc |-> "pv", devs |-> Tail(wr.devs), text |-> wr.text]
            /\ UNCHANGED res
       ELSE \E h \in {read_mda_header(wr.areas[1], disk[wr.devs[1]])} :
         IF h.status # "ok" THEN CommitReturns(h.status)
         ELSE \E rl \in {IF h.rl = None THEN InitialRawLocn ELSE h.rl[1]} :
           IF rl.ignored
           THEN wr' = [wr EXCEPT !.areas = Tail(wr.areas)] /\ UNCHANGED res
           ELSE IF start_off(wr.areas[1], rl) % SECTOR_SIZE # 0
                   \/ tail_space(wr.areas[1], rl) % SECTOR_SIZE # 0
             THEN CommitReturns("panic")
           ELSE /\ wr' = [pc |-> "payload", devs |-> wr.devs, text |-> wr.text,
                          areas |-> wr.areas, rl |-> rl]
                /\ UNCHANGED res
    /\ UNCHANGED <<disk, partitions, vg, dm>>

(* write_metadata: the two writes of the text *)
CommitPayload ==
    /\ wr.pc = "payload"
    /\ \E w1 \in {write_payload_first(wr.areas[1], disk[wr.devs[1]], wr.rl,
                                      wr.text)} :
       \E w2 \in {write_payload_rest(wr.areas[1], w1.disk, w1.written,
                                     wr.text)} :
         /\ disk' = [disk EXCEPT ![wr.devs[1]] = IF w1.ok THEN w2.disk ELSE w1.disk]
         /\ IF w1.ok /\ w2.ok
            THEN /\ wr' = [wr EXCEPT !.pc = "header"]
                 /\ res' = [res EXCEPT !.why =
                       Append(res.why, <<wr.devs[1], wr.areas[1].offset, "payload">>)]
            ELSE CommitReturns("err")
    /\ UNCHANGED <<partitions, vg, dm>>

(* write_metadata: write_mda_header with the new RawLocn *)
CommitHeader ==
    /\ wr.pc = "header"
    /\ \E w \in {write_mda_header(wr.areas[1], disk[wr.devs[1]],
                                  new_rl(wr.areas[1], wr.rl, wr.text))} :
         /\ disk' = [disk EXCEPT ![wr.devs[1]] = w.disk]
         /\ IF w.ok
            THEN /\ wr' = [pc |-> "area", devs |-> wr.devs, text |-> wr.text,
                           areas |-> Tail(wr.areas)]
                 /\ res' = [res EXCEPT !.why =
                       Append(res.why, <<wr.devs[1], wr.areas[1].offset, "header">>)]
            ELSE CommitReturns("err")
    /\ UNCHANGED <<partitions, vg, dm>>

NextCommit ==
    \/ PvAdd
    \/ CommitBegin
    \/ CommitPv
    \/ CommitReadHeader
    \/ CommitPayload
    \/ CommitHeader

SpecCommit == Init /\ [][NextCommit]_vars

(* the write a comes before the write b in the order of devices, then of   *)
(* the offsets of the metadata areas, the payload before the header        *)
WriteBefore(a, b) ==
    \/ DevLess(a[1], b[1])
    \/ a[1] = b[1] /\ a[2] < b[2]
    \/ a[1] = b[1] /\ a[2] = b[2] /\ a[3] = "payload" /\ b[3] = "header"

C27_CommitBeforeDm ==
    [][res'.op = "lv_create_linear"
         => /\ res'.why[1] \in {"DM::new", "LinearDev::setup unwrap"}
                 => res'.status = "err"
            /\ dm' # dm
                 => /\ res'.status = "ok"
                    /\ res'.arg[1] \in DOMAIN vg'.lvs
                    /\ vg'.seqno = vg.seqno + 1]_vars

(* the device-mapper refused the device and lv_create_linear aborted *)
C27_DmFailureAborts ==
    /\ res.op = "lv_create_linear"
    /\ res.status = "panic"
    /\ res.why = <<"LinearDev::setup unwrap">>
    /\ res.arg[1] \notin DOMAIN vg.lvs

(* the first RawLocn in the header of the area carries the ignored flag *)
IgnoredFlag(area, dev) ==
    With(Slice(ReadAt(dev, area.offset, MDA_HEADER_SIZE), 4, MDA_HEADER_SIZE),
         LAMBDA body : IsHdrBody(body) /\ HdrField(body).rl_flags % 2 = 1)

(* the offset of the first RawLocn in a header that read_mda_header takes  *)
(* is 0                                                                    *)
OffsetZero(area, dev) ==
    With(Slice(ReadAt(dev, area.offset, MDA_HEADER_SIZE), 4, MDA_HEADER_SIZE),
         LAMBDA body : IsHdrBody(body) /\ HdrField(body).rl_offset = 0)

AreaBytes(area, dev) == Slice(dev, area.offset, area.offset + area.size)

(* C28: a metadata area whose first RawLocn has the offset 0 or the        *)
(* ignored flag gives a reader no metadata, and no step of a metadata      *)
(* write changes a byte of an area whose first RawLocn has the ignored     *)
(* flag, whatever its offset.                                              *)
C28_IgnoredMda ==
    [][\A a \in 1 .. Len(wr.areas) :
         /\ IgnoredFlag(wr.areas[a], disk[MdaDev])
              => AreaBytes(wr.areas[a], disk'[MdaDev])
                   = AreaBytes(wr.areas[a], disk[MdaDev])
         /\ (/\ read_mda_header(wr.areas[a], disk'[MdaDev]).status = "ok"
             /\ \/ IgnoredFlag(wr.areas[a], disk'[MdaDev])
                \/ OffsetZero(wr.areas[a], disk'[MdaDev]))
              => read_metadata_area(wr.areas[a], disk'[MdaDev]).status
                   = "continue"]_vars

(* the first area was marked ignored with the offset 0, a write returned   *)
(* Ok, and the area holds the new metadata without the flag                *)
C28_IgnoredAreaWritten ==
    /\ wr.mark = Some([EmptyRawLocn EXCEPT !.ignored = TRUE])
    /\ res.op = "write_metadata"
    /\ res.status = "ok"
    /\ ~IgnoredFlag(wr.areas[1], disk[MdaDev])
    /\ read_metadata_area(wr.areas[1], disk[MdaDev]).status = "ok"

(* the first RawLocn of the area is live and its blob extends past the end *)
(* of the area                                                             *)
BlobWraps(area, dev) ==
    With(read_mda_header(area, dev), LAMBDA h :
         /\ h.status = "ok"
         /\ h.rl # None
         /\ ~h.rl[1].ignored
         /\ h.rl[1].offset <= area.size
         /\ h.rl[1].offset + h.rl[1].size > area.size)

(* the bytes from the blob's offset up to the end of the area, followed by *)
(* the remaining bytes of the blob taken from sector 1 of the area         *)
WrappedBlob(area, dev, rl) ==
    With(area.size - rl.offset, LAMBDA first_read :
         Overlay(Overlay(Zeros(rl.size), 0,
                         ReadAt(dev, area.offset + rl.offset, first_read)),
                 first_read,
                 ReadAt(dev, area.offset + MDA_HEADER_SIZE,
                        rl.size - first_read)))

(* C29: when the blob of the first RawLocn extends past the end of its     *)
(* area, read_metadata takes as the text the bytes from the blob's offset  *)
(* to the end of the area followed by the remaining bytes from sector 1 of *)
(* the area, rl.size bytes in all, and checks the CRC of that text.        *)
C29_WrappedRead ==
    \A a \in 1 .. Len(wr.areas) :
      BlobWraps(wr.areas[a], disk[MdaDev]) =>
        \E rl \in {read_mda_header(wr.areas[a], disk[MdaDev]).rl[1]} :
          /\ read_text(wr.areas[a], disk[MdaDev], rl)
               = WrappedBlob(wr.areas[a], disk[MdaDev], rl)
          /\ read_metadata_area(wr.areas[a], disk[MdaDev])
               = check_text(rl, WrappedBlob(wr.areas[a], disk[MdaDev], rl))

(* a write returned Ok and left a blob that wraps, with unequal parts      *)
(* before and after the end of the area, and the read of it fails          *)
C29_WrappedUnreadable ==
    /\ res.op = "write_metadata"
    /\ res.status = "ok"
    /\ wr.pc = "idle"
    /\ BlobWraps(wr.areas[1], disk[MdaDev])
    /\ \E rl \in {read_mda_header(wr.areas[1], disk[MdaDev]).rl[1]} :
         /\ 2 * (wr.areas[1].size - rl.offset) # rl.size
         /\ read_text(wr.areas[1], disk[MdaDev], rl)
              # WrappedBlob(wr.areas[1], disk[MdaDev], rl)
    /\ read_metadata_area(wr.areas[1], disk[MdaDev]).status = "err"

(* the pe_count of the PV did not wrap in pv_add: the model holds it as a  *)
(* number                                                                  *)
PeCountIsNumber(d) == DataSectors(PvHeaderOf(d), vg.extent_size) >= 0

(* C30: free_areas gives no free range of length 0, also for a PV whose    *)
(* pe_count is 0 or whose extents are all used, and a PV with no used      *)
(* range and pe_count > 0 has exactly the free range [0, pe_count).        *)
C30_FreeRanges ==
    ~free_areas_panics(vg)
      => \A d \in DOMAIN vg.pvs :
           PeCountIsNumber(d) =>
             \E free \in {MapGet(free_areas(vg), d)} :
               /\ \A start \in DOMAIN free : free[start] > 0
               /\ (d \notin DOMAIN used_areas(vg) /\ vg.pvs[d].pe_count > 0)
                    => free = (0 :> vg.pvs[d].pe_count)

(* pv_add returned Ok with a PV of no extent, and free_areas gives it the  *)
(* free range of length 0 at 0                                             *)
C30_EmptyPvRange ==
    /\ res.op = "pv_add"
    /\ res.status = "ok"
    /\ \E d \in DOMAIN vg.pvs :
         /\ PeCountIsNumber(d)
         /\ vg.pvs[d].pe_count = 0
         /\ free_areas(vg)[d] = (0 :> 0)

----------------------------------------------------------------------------
(* pv.rs: Device and its packed u64.  A u32 is four bytes and a u64 eight, *)
(* the most significant first; a Device is [major: u32, minor: u8].        *)

(* From<Device> for u64: ((dev.major << 8) ^ (dev.minor as u32 & 0xff))    *)
(* as u64.  The shift is a u32 shift: the top byte of major leaves the     *)
(* word.                                                                   *)
u64_from_Device(dev) ==
    <<0, 0, 0, 0, dev.major[2], dev.major[3], dev.major[4], dev.minor % 256>>

(* From<u64> for Device: major (val >> 8) as u32, minor (val & 0xff) as u8 *)
Device_from_u64(val) ==
    [major |-> <<val[4], val[5], val[6], val[7]>>, minor |-> val[8]]

(* a number of the model as the bytes of a u32, and back *)
NatBytes(n) ==
    <<n \div (256 * 256 * 256), (n \div (256 * 256)) % 256, (n \div 256) % 256,
      n % 256>>

RECURSIVE BytesNat(_)
BytesNat(bs) ==
    IF bs = <<>> THEN 0 ELSE 256 * BytesNat(SubSeq(bs, 1, Len(bs) - 1)) + bs[Len(bs)]

(* the Device <<major, minor>> of the VG model as the number in the        *)
(* "device" key, and a number of that key as a Device                      *)
DeviceNumber(d) ==
    BytesNat(u64_from_Device([major |-> NatBytes(d[1]), minor |-> d[2]]))

NumberDevice(n) ==
    With(Device_from_u64(<<0, 0, 0, 0>> \o NatBytes(n)), LAMBDA dev :
         <<BytesNat(dev.major), dev.minor>>)

----------------------------------------------------------------------------
(* vg.rs, lv.rs, pv.rs: the VG as an LvmTextMap and back.  A textmap is a  *)
(* function from keys to entries <<"Number", n>>, <<"String", s>>,         *)
(* <<"List", seq>>, <<"TextMap", map>>; a key is a tuple, <<"seqno">>, or  *)
(* <<"pv", 0>> for "pv0" and <<"segment", 1>> for "segment1"; the key of   *)
(* an LV is its name.  The keys the VG of the model has no field for (id,  *)
(* status, flags, format, creation_host, ...) are left out: to_textmap     *)
(* always writes them.                                                     *)

(* TextMapOps: i64_from_textmap, string_from_textmap, textmap_from_textmap *)
(* and list_from_textmap are entry_from_textmap with their kind            *)
entry_from_textmap(map, kind, name) ==
    IF name \in DOMAIN map /\ map[name][1] = kind THEN Some(map[name][2])
    ELSE None

(* StripedSegment::to_textmap *)
StripedSegment_to_textmap(seg, dev_to_idx) ==
    (IF seg.stripe_size # None
     THEN (<<"stripe_size">> :> <<"Number", seg.stripe_size[1]>>)
     ELSE EmptyMap)
    @@ (<<"start_extent">> :> <<"Number", seg.start_extent>>)
    @@ (<<"extent_count">> :> <<"Number", seg.extent_count>>)
    @@ (<<"type">> :> <<"String", "striped">>)
    @@ (<<"stripe_count">> :> <<"Number", Len(seg.stripes)>>)
    @@ (<<"stripes">> :>
          <<"List",
            [i \in 1 .. 2 * Len(seg.stripes) |->
               IF i % 2 = 1
               THEN <<"String", <<"pv", dev_to_idx[seg.stripes[(i + 1) \div 2][1]]>>>>
               ELSE <<"Number", seg.stripes[i \div 2][2]>>]>>)

(* lv::to_textmap *)
lv_to_textmap(lv, dev_to_idx) ==
    (<<"segment_count">> :> <<"Number", Len(lv.segments)>>)
    @@ [k \in {<<"segment", i>> : i \in 1 .. Len(lv.segments)} |->
          <<"TextMap", StripedSegment_to_textmap(lv.segments[k[2]], dev_to_idx)>>]

(* pv::to_textmap *)
pv_to_textmap(pv) ==
    (<<"device">> :> <<"Number", DeviceNumber(pv.device)>>)
    @@ (<<"dev_size">> :> <<"Number", pv.dev_size>>)
    @@ (<<"pe_start">> :> <<"Number", pv.pe_start>>)
    @@ (<<"pe_count">> :> <<"Number", pv.pe_count>>)

(* to_textmap of vg.rs, with dev_to_idx: the place of each PV in           *)
(* vg.pvs.values(), from 0                                                 *)
vg_to_textmap(v) ==
    With([d \in DOMAIN v.pvs |->
            (CHOOSE i \in 1 .. Len(SortedDevs(DOMAIN v.pvs)) :
                SortedDevs(DOMAIN v.pvs)[i] = d) - 1],
         LAMBDA dev_to_idx :
    (<<"seqno">> :> <<"Number", v.seqno>>)
    @@ (<<"extent_size">> :> <<"Number", v.extent_size>>)
    @@ (<<"physical_volumes">> :>
          <<"TextMap",
            [k \in {<<"pv", dev_to_idx[d]>> : d \in DOMAIN v.pvs} |->
               <<"TextMap",
                 pv_to_textmap(v.pvs[CHOOSE d \in DOMAIN v.pvs :
                                       dev_to_idx[d] = k[2]])>>]>>)
    @@ (IF DOMAIN v.lvs # {}
        THEN (<<"logical_volumes">> :>
                <<"TextMap",
                  [n \in DOMAIN v.lvs |->
                     <<"TextMap", lv_to_textmap(v.lvs[n], dev_to_idx)>>]>>)
        ELSE EmptyMap))

(* dev::from_textmap.  No textmap of the model gives the device as a       *)
(* string, which Device::from_str would look up as a number or a path.     *)
dev_from_textmap(map) ==
    IF entry_from_textmap(map, "Number", <<"device">>) # None
    THEN Some(NumberDevice(map[<<"device">>][2]))
    ELSE None

(* pv::from_textmap: None for its errors *)
pv_from_textmap(map) ==
    IF \/ dev_from_textmap(map) = None
       \/ entry_from_textmap(map, "Number", <<"dev_size">>) = None
       \/ entry_from_textmap(map, "Number", <<"pe_start">>) = None
       \/ entry_from_textmap(map, "Number", <<"pe_count">>) = None
    THEN None
    ELSE Some([device   |-> dev_from_textmap(map)[1],
               dev_size |-> map[<<"dev_size">>][2],
               pe_start |-> map[<<"pe_start">>][2],
               pe_count |-> map[<<"pe_count">>][2]])

(* StripedSegment::from_textmap, its loop over stripe_list.chunks(2):      *)
(* slc[1] of a last chunk of one entry is an index out of bounds           *)
RECURSIVE stripes_loop(_, _, _)
stripes_loop(stripe_list, pvs, stripes) ==
    IF stripe_list = <<>> THEN [status |-> "ok", stripes |-> stripes]
    ELSE IF stripe_list[1][1] # "String" \/ stripe_list[1][2] \notin DOMAIN pvs
      THEN [status |-> "err", stripes |-> stripes]
    ELSE IF Len(stripe_list) = 1
      THEN [status |-> "panic", stripes |-> stripes]
    ELSE IF stripe_list[2][1] # "Number"
      THEN [status |-> "err", stripes |-> stripes]
    ELSE stripes_loop(SubSeq(stripe_list, 3, Len(stripe_list)), pvs,
                      Append(stripes, <<pvs[stripe_list[1][2]].device,
                                        stripe_list[2][2]>>))

(* StripedSegment::from_textmap: stripe_size is read from "start_extent" *)
StripedSegment_from_textmap(map, pvs) ==
    IF entry_from_textmap(map, "List", <<"stripes">>) = None
      THEN [status |-> "err", seg |-> None]
    ELSE With(stripes_loop(map[<<"stripes">>][2], pvs, <<>>), LAMBDA st :
    IF st.status # "ok" THEN [status |-> st.status, seg |-> None]
    ELSE IF \/ entry_from_textmap(map, "Number", <<"start_extent">>) = None
            \/ entry_from_textmap(map, "Number", <<"extent_count">>) = None
      THEN [status |-> "err", seg |-> None]
    ELSE [status |-> "ok",
          seg |-> Some([start_extent |-> map[<<"start_extent">>][2],
                        extent_count |-> map[<<"extent_count">>][2],
                        stripes      |-> st.stripes,
                        stripe_size  |->
                          entry_from_textmap(map, "Number", <<"start_extent">>)])])

(* segment::from_textmap: any type but "striped" and "thin-pool" is        *)
(* unimplemented!(); a thin-pool segment without "discards" is an error,   *)
(* and no textmap of the model has that key                                *)
segment_from_textmap(map, pvs) ==
    IF entry_from_textmap(map, "String", <<"type">>) = Some("striped")
      THEN StripedSegment_from_textmap(map, pvs)
    ELSE IF entry_from_textmap(map, "String", <<"type">>) = Some("thin-pool")
      THEN [status |-> "err", seg |-> None]
    ELSE [status |-> "panic", seg |-> None]

(* lv::from_textmap, (0..segment_count).map(..).filter_map(|seg| seg.ok()):*)
(* a segment that is missing or does not parse is left out                 *)
RECURSIVE segments_loop(_, _, _, _, _)
segments_loop(map, pvs, num, segment_count, segments) ==
    IF num >= segment_count THEN [status |-> "ok", segments |-> segments]
    ELSE IF entry_from_textmap(map, "TextMap", <<"segment", num + 1>>) = None
      THEN segments_loop(map, pvs, num + 1, segment_count, segments)
    ELSE With(segment_from_textmap(map[<<"segment", num + 1>>][2], pvs),
              LAMBDA seg :
         IF seg.status = "panic" THEN [status |-> "panic", segments |-> segments]
         ELSE segments_loop(map, pvs, num + 1, segment_count,
                            IF seg.status = "ok"
                            THEN Append(segments, seg.seg[1]) ELSE segments))

(* lv::from_textmap *)
lv_from_textmap(name, map, pvs) ==
    IF entry_from_textmap(map, "Number", <<"segment_count">>) = None
      THEN [status |-> "err", lv |-> None]
    ELSE With(segments_loop(map, pvs, 0, map[<<"segment_count">>][2], <<>>),
              LAMBDA sl :
         IF sl.status = "panic" THEN [status |-> "panic", lv |-> None]
         ELSE [status |-> "ok",
               lv |-> Some([name |-> name, segments |-> sl.segments])])

(* VG::from_textmap, its loop over "physical_volumes" in key order *)
RECURSIVE str_to_pv_loop(_, _, _)
str_to_pv_loop(idxs, tm, ret_map) ==
    IF idxs = <<>> THEN [status |-> "ok", map |-> ret_map]
    ELSE With(<<"pv", idxs[1]>>, LAMBDA key :
         IF tm[key][1] # "TextMap" \/ pv_from_textmap(tm[key][2]) = None
           THEN [status |-> "err", map |-> ret_map]
         ELSE str_to_pv_loop(Tail(idxs), tm,
                             MapInsert(ret_map, key,
                                       pv_from_textmap(tm[key][2])[1])))

(* VG::from_textmap, its loop over "logical_volumes" in key order *)
RECURSIVE lvs_loop(_, _, _, _)
lvs_loop(names, tm, str_to_pv, ret_map) ==
    IF names = <<>> THEN [status |-> "ok", map |-> ret_map]
    ELSE IF tm[names[1]][1] # "TextMap"
      THEN [status |-> "err", map |-> ret_map]
    ELSE With(lv_from_textmap(names[1], tm[names[1]][2], str_to_pv), LAMBDA lv :
         IF lv.status # "ok" THEN [status |-> lv.status, map |-> ret_map]
         ELSE lvs_loop(Tail(names), tm, str_to_pv,
                       MapInsert(ret_map, names[1], lv.lv[1])))

(* VG::from_textmap.  env: DM::new() and list_devices at its end work, or  *)
(* DM::new() fails.                                                        *)
vg_from_textmap(name, map, env) ==
    IF \/ entry_from_textmap(map, "Number", <<"seqno">>) = None
       \/ entry_from_textmap(map, "Number", <<"extent_size">>) = None
       \/ entry_from_textmap(map, "TextMap", <<"physical_volumes">>) = None
      THEN [status |-> "err", vg |-> None]
    ELSE
    With(map[<<"physical_volumes">>][2], LAMBDA ptm :
    With(str_to_pv_loop(SortedNats({k[2] : k \in DOMAIN ptm}), ptm, EmptyMap),
         LAMBDA sp :
    IF sp.status # "ok" THEN [status |-> "err", vg |-> None]
    ELSE
    With(IF entry_from_textmap(map, "TextMap", <<"logical_volumes">>) = None
         THEN [status |-> "ok", map |-> EmptyMap]
         ELSE lvs_loop(SortedNames(DOMAIN map[<<"logical_volumes">>][2]),
                       map[<<"logical_volumes">>][2], sp.map, EmptyMap),
         LAMBDA lvs :
    IF lvs.status # "ok" THEN [status |-> lvs.status, vg |-> None]
    ELSE IF env = "new_fails" THEN [status |-> "err", vg |-> None]
    ELSE [status |-> "ok",
          vg |-> Some([name |-> name,
                       seqno |-> map[<<"seqno">>][2],
                       extent_size |-> map[<<"extent_size">>][2],
                       pvs |-> [d \in {sp.map[k].device : k \in DOMAIN sp.map} |->
                                  sp.map[CHOOSE k \in DOMAIN sp.map :
                                           /\ sp.map[k].device = d
                                           /\ \A j \in DOMAIN sp.map :
                                                sp.map[j].device = d
                                                  => j[2] <= k[2]]],
                       lvs |-> lvs.map])])))

----------------------------------------------------------------------------
(* VG::from_textmap on the metadata of a VG another tool wrote, whole or   *)
(* with the last segment of each LV damaged (SpecVgText)                   *)

MaxSegments == 2

(* a VG on the PVs S with the LVs L, each of k segments of one extent on   *)
(* the PV d                                                                *)
TextVg(S, L, k, d) ==
    [name |-> VgName, seqno |-> 1, extent_size |-> DEFAULT_EXTENT_SIZE,
     pvs |-> [x \in S |->
                [device |-> x,
                 dev_size |-> DEFAULT_EXTENT_SIZE * (1 + MaxSegments * NumLvNames),
                 pe_start |-> DEFAULT_EXTENT_SIZE,
                 pe_count |-> MaxSegments * NumLvNames]],
     lvs |-> [n \in L |->
                [name |-> n,
                 segments |->
                   [i \in 1 .. k |->
                      [start_extent |-> i - 1, extent_count |-> 1,
                       stripes |-> <<<<d, (CharCode(n[1]) % NumLvNames) * k + i - 1>>>>,
                       stripe_size |-> None]]]]]

TextVgs ==
    UNION {{TextVg(S, L, k, d) : L \in SUBSET LvNames, k \in 1 .. MaxSegments,
                                 d \in S} : S \in SUBSET Devices \ {{}}}

SegmentDamages ==
    {"none", "no_stripes", "unknown_pv", "no_type", "odd_stripes",
     "stripe_not_number", "no_extent_count", "no_segment"}

(* the textmap of a segment with the damage; npvs is the least index that  *)
(* no key of "physical_volumes" has                                        *)
DamageSegment(seg, kind, npvs) ==
    IF kind = "no_stripes" THEN MapRemove(seg, <<"stripes">>)
    ELSE IF kind = "no_type" THEN MapRemove(seg, <<"type">>)
    ELSE IF kind = "no_extent_count" THEN MapRemove(seg, <<"extent_count">>)
    ELSE IF kind = "unknown_pv"
      THEN [seg EXCEPT ![<<"stripes">>][2][1] = <<"String", <<"pv", npvs>>>>]
    ELSE IF kind = "odd_stripes"
      THEN [seg EXCEPT ![<<"stripes">>][2] = SubSeq(@, 1, 1)]
    ELSE IF kind = "stripe_not_number"
      THEN [seg EXCEPT ![<<"stripes">>][2][2] = <<"String", <<"pv", 0>>>>]
    ELSE seg

(* the textmap of an LV with its last segment damaged or left out *)
DamageLv(lm, kind, npvs) ==
    With(<<"segment", lm[<<"segment_count">>][2]>>, LAMBDA last :
         IF kind = "no_segment" THEN MapRemove(lm, last)
         ELSE [lm EXCEPT ![last] = <<"TextMap", DamageSegment(@[2], kind, npvs)>>])

DamageVg(map, kind) ==
    IF <<"logical_volumes">> \notin DOMAIN map THEN map
    ELSE [map EXCEPT ![<<"logical_volumes">>] =
            <<"TextMap",
              [n \in DOMAIN @[2] |->
                 <<"TextMap",
                   DamageLv(@[2][n][2], kind,
                            Cardinality(DOMAIN map[<<"physical_volumes">>][2]))>>]>>]

InitVgText ==
    /\ \E v \in TextVgs, kind \in SegmentDamages :
         wr = [pc |-> "textmap", damage |-> kind,
               map |-> DamageVg(vg_to_textmap(v), kind)]
    /\ res = [op |-> "input", arg |-> <<>>, status |-> "ok", why |-> <<>>,
              mutated |-> FALSE]
    /\ disk = EmptyMap
    /\ partitions = {}
    /\ vg = [name |-> VgName, seqno |-> 0, extent_size |-> DEFAULT_EXTENT_SIZE,
             pvs |-> EmptyMap, lvs |-> EmptyMap]
    /\ dm = {}

(* VG::from_textmap on the textmap *)
FromTextmap ==
    /\ wr.pc = "textmap"
    /\ \E env \in {"ok", "new_fails"} :
         \E r \in {vg_from_textmap(VgName, wr.map, env)} :
           /\ res' = [op |-> "from_textmap", arg |-> <<env>>,
                      status |-> r.status, why |-> <<>>,
                      mutated |-> r.status = "ok"]
           /\ vg' = IF r.status = "ok" THEN r.vg[1] ELSE vg
    /\ wr' = [wr EXCEPT !.pc = "done"]
    /\ UNCHANGED <<disk, partitions, dm>>

NextVgText == FromTextmap

SpecVgText == InitVgText /\ [][NextVgText]_vars

----------------------------------------------------------------------------
(* Properties of the VG as a textmap                                       *)

(* the VG that from_textmap makes of to_textmap of the VG *)
Reread(v) == vg_from_textmap(v.name, vg_to_textmap(v), "ok")

(* C31: for every VG reached by create, pv_add, pv_remove,                 *)
(* lv_create_linear and lv_remove, from_textmap of to_textmap of the VG    *)
(* is a VG with the same seqno, extent_size and PVs by Device and, for     *)
(* every LV, the same segments field by field (start_extent, extent_count, *)
(* stripes as (Device, pv_extent), stripe_size), whatever pv<i> keys the   *)
(* PVs were written under.                                                 *)
C31_VgRoundTrip ==
    (res.status # "panic" /\ ~free_areas_panics(vg)) =>
      /\ Reread(vg).status = "ok"
      /\ \E v2 \in {Reread(vg).vg[1]} :
           /\ v2.seqno = vg.seqno
           /\ v2.extent_size = vg.extent_size
           /\ v2.pvs = vg.pvs
           /\ DOMAIN v2.lvs = DOMAIN vg.lvs
           /\ \A n \in DOMAIN vg.lvs : v2.lvs[n].segments = vg.lvs[n].segments

(* an LV made by lv_create_linear, with no stripe_size, comes back with    *)
(* the stripe_size 0 of its start_extent and is the same otherwise         *)
C31_StripeSizeAppears ==
    /\ Reread(vg).status = "ok"
    /\ \E n \in DOMAIN vg.lvs :
         /\ vg.lvs[n].segments[1].stripe_size = None
         /\ Reread(vg).vg[1].lvs[n].segments[1].stripe_size = Some(0)
         /\ [Reread(vg).vg[1].lvs[n].segments[1] EXCEPT !.stripe_size = None]
              = vg.lvs[n].segments[1]

(* the segment_count that the textmap gives for the LV *)
SegmentCountOf(map, n) ==
    map[<<"logical_volumes">>][2][n][2][<<"segment_count">>][2]

(* C32: from_textmap returns an error when a segment of an LV cannot be    *)
(* parsed or its stripes name a PV key that "physical_volumes" does not    *)
(* define; it never returns Ok with an LV of fewer segments than its       *)
(* segment_count.                                                          *)
C32_BadSegmentIsError ==
    res.op = "from_textmap" =>
      /\ (wr.damage # "none" /\ <<"logical_volumes">> \in DOMAIN wr.map)
           => res.status = "err"
      /\ res.status = "ok"
           => \A n \in DOMAIN vg.lvs :
                Len(vg.lvs[n].segments) >= SegmentCountOf(wr.map, n)

(* from_textmap returned Ok on a textmap whose segment names a PV key that *)
(* is not defined, and the LV has lost that segment                        *)
C32_SegmentDropped ==
    /\ res.op = "from_textmap"
    /\ res.status = "ok"
    /\ wr.damage = "unknown_pv"
    /\ \E n \in DOMAIN vg.lvs :
         Len(vg.lvs[n].segments) < SegmentCountOf(wr.map, n)

----------------------------------------------------------------------------
(* Properties of the lexer (SpecText)                                      *)

(* the tokens Lexer::new(buf) gives *)
TokensOf(chars) ==
    LexerTokens(chars, [cursor |-> 1, next_is_ident |-> FALSE], <<>>).tokens

(* a token that begins with a digit or the sign of a number *)
DigitLed(tok) ==
    \/ tok[1] = "Number"
    \/ tok[1] = "Ident" /\ tok[2][1] \in Digits \cup {"-"}

(* C33: the lexer gives a digit-led token as an identifier exactly when    *)
(* the token before it is '{'; every other digit-led token, also a second  *)
(* digit-led key of the section and one that comes after '{' with a '}' or *)
(* a comment between, is a Number.                                         *)
C33_DigitLedIdent ==
    res.op = "buf_to_textmap" =>
      \E t \in {TokensOf(wr.bufs[Len(wr.bufs)])} :
        \A i \in 1 .. Len(t) :
          DigitLed(t[i])
            => (t[i][1] = "Ident" <=> (i > 1 /\ t[i - 1][1] = "CurlyOpen"))

(* a digit-led token is an identifier though the token before it is the    *)
(* '}' or the comment that follows a '{'                                   *)
C33_IdentAfterClose ==
    /\ res.op = "buf_to_textmap"
    /\ \E t \in {TokensOf(wr.bufs[Len(wr.bufs)])} :
         \E i \in 3 .. Len(t) :
           /\ DigitLed(t[i])
           /\ t[i][1] = "Ident"
           /\ t[i - 1][1] \in {"CurlyClose", "Comment"}
           /\ t[i - 2][1] = "CurlyOpen"

(* the keys of a text in the order they are written: the identifiers that  *)
(* '=' or '{' follows                                                      *)
KeysOf(chars) ==
    With(TokensOf(chars), LAMBDA t :
         With(SelectSeq([i \in 1 .. Len(t) |-> <<i, t[i]>>],
                        LAMBDA p : /\ p[2][1] = "Ident"
                                   /\ p[1] < Len(t)
                                   /\ t[p[1] + 1][1] \in {"Equals", "CurlyOpen"}),
              LAMBDA ks : [i \in 1 .. Len(ks) |-> ks[i][2][2]]))

NoKeyTwice(keys) == \A i, j \in 1 .. Len(keys) : keys[i] = keys[j] => i = j

(* C34: textmap_to_buf writes the entries of every map, the top level and  *)
(* the sections, in the order they were inserted: for a parsed text whose  *)
(* keys all come out, each once, they come out in the order of the input.  *)
C34_InsertionOrder ==
    (res.op = "textmap_to_buf" /\ res.status = "ok")
      => \E keys \in {KeysOf(wr.bufs[Len(wr.bufs) - 1])},
            out \in {KeysOf(wr.bufs[Len(wr.bufs)])} :
           (/\ NoKeyTwice(keys)
            /\ Len(out) = Len(keys)
            /\ {out[i] : i \in 1 .. Len(out)} = {keys[i] : i \in 1 .. Len(keys)})
             => out = keys

(* a text with the key "a" before the key ".b" was parsed and written out, *)
(* and ".b" comes out first                                                *)
C34_KeysSorted ==
    /\ res.op = "textmap_to_buf"
    /\ res.status = "ok"
    /\ KeysOf(wr.bufs[Len(wr.bufs) - 1]) = <<<<"a">>, <<".", "b">>>>
    /\ KeysOf(wr.bufs[Len(wr.bufs)]) = <<<<".", "b">>, <<"a">>>>

----------------------------------------------------------------------------
(* pv.rs: a Device into its packed u64 and back (SpecDevice)               *)

(* the values a byte of major and the minor take in the model *)
DeviceBytes == {0, 1, 255}

InitDevice ==
    /\ \E major \in [1 .. 4 -> DeviceBytes], minor \in DeviceBytes :
         wr = [pc |-> "device", dev |-> [major |-> major, minor |-> minor]]
    /\ res = [op |-> "input", arg |-> <<>>, status |-> "ok", why |-> <<>>,
              mutated |-> FALSE]
    /\ disk = EmptyMap
    /\ partitions = {}
    /\ vg = [name |-> VgName, seqno |-> 0, extent_size |-> DEFAULT_EXTENT_SIZE,
             pvs |-> EmptyMap, lvs |-> EmptyMap]
    /\ dm = {}

(* let val: u64 = dev.into() *)
IntoU64 ==
    /\ wr.pc = "device"
    /\ wr' = [pc |-> "u64", dev |-> wr.dev, val |-> u64_from_Device(wr.dev)]
    /\ res' = [res EXCEPT !.op = "u64_from_device"]
    /\ UNCHANGED <<disk, partitions, vg, dm>>

(* Device::from(val) *)
FromU64 ==
    /\ wr.pc = "u64"
    /\ wr' = [pc |-> "back", dev |-> wr.dev, val |-> wr.val,
              back |-> Device_from_u64(wr.val)]
    /\ res' = [res EXCEPT !.op = "device_from_u64"]
    /\ UNCHANGED <<disk, partitions, vg, dm>>

NextDevice == IntoU64 \/ FromU64

SpecDevice == InitDevice /\ [][NextDevice]_vars

(* C35: for a Device of any 32-bit major and a minor of at most 255 the    *)
(* packed u64 is (major << 8) | (minor & 0xff) with every bit of major in  *)
(* it, and the Device made of that value is the same Device.               *)
C35_DevicePacked ==
    /\ wr.pc \in {"u64", "back"}
         => wr.val = <<0, 0, 0, wr.dev.major[1], wr.dev.major[2],
                       wr.dev.major[3], wr.dev.major[4], wr.dev.minor>>
    /\ wr.pc = "back" => wr.back = wr.dev

(* a Device whose major has a bit in its top byte came back with that byte *)
(* 0 and is the same otherwise                                             *)
C35_MajorTruncated ==
    /\ wr.pc = "back"
    /\ wr.dev.major[1] # 0
    /\ wr.back = [wr.dev EXCEPT !.major[1] = 0]

----------------------------------------------------------------------------
(* Properties of pv_remove, create and the device-mapper names (Spec,      *)
(* SpecCreate)                                                             *)

(* the metadata areas of the device hold live metadata of a VG that has    *)
(* the device among its PVs                                                *)
NamesItself(dsk, d) ==
    With(read_metadata(PvHeaderOf(d).metadata_areas, dsk[d]), LAMBDA m :
         m.status = "ok" /\ d \in DOMAIN m.map.physical_volumes)

(* C36: after pv_remove(d) returned Ok no live metadata area of d holds    *)
(* metadata with d among the PVs of the VG, and a pv_add of d is not       *)
(* turned down as already in a VG.                                         *)
C36_RemovedPvIsFree ==
    (res.op = "pv_remove" /\ res.status = "ok") =>
      /\ ~NamesItself(disk, res.arg[1])
      /\ \A overflow_checks \in BOOLEAN :
           \E o \in {pv_add(vg, disk, dm, partitions, res.arg[1], overflow_checks)} :
             ~(o.status = "err" /\ o.why[1] = "PV already in VG")

(* pv_remove of the device returned Ok, and the pv_add of it that follows  *)
(* is turned down with the name of the VG it was removed from              *)
C36_RemovedPvRefused ==
    /\ res.op = "pv_add"
    /\ res.status = "err"
    /\ res.why = <<"PV already in VG", VgName>>
    /\ res.arg[1] \notin DOMAIN vg.pvs
    /\ NamesItself(disk, res.arg[1])

(* C37: create is all or nothing on disk: when it fails because a later    *)
(* PV of the list is turned down, no PV earlier in the list is left with   *)
(* committed metadata of the VG that was not created.                      *)
C37_CreateAllOrNothing ==
    (res.op = "create" /\ res.status # "ok") =>
      \A d \in Devices :
        read_metadata(PvHeaderOf(d).metadata_areas, disk[d]).status # "ok"

(* create returned an error for the second path of its list, and the       *)
(* first PV of the list holds the metadata of the VG at seqno 1 with       *)
(* itself as the only PV                                                   *)
C37_FirstPvCommitted ==
    /\ res.op = "create"
    /\ res.status = "err"
    /\ Len(res.arg[1]) = 2
    /\ PersistedSeqno(disk, res.arg[1][1]) = Some(1)
    /\ NamesItself(disk, res.arg[1][1])
    /\ vg.pvs = EmptyMap

(* C38: the DM device lv_remove suspends and removes has the name under    *)
(* which lv_create_linear made the device of the LV: lv_remove takes away  *)
(* no device of another name, and after lv_create_linear(n) and an         *)
(* lv_remove(n) that returned Ok no DM device of the LV is left.           *)
C38_RemovesCreatedDevice ==
    [][(res'.op = "lv_remove" /\ res'.arg[1] \in DOMAIN vg.lvs)
         => /\ \A x \in dm \ dm' : x.name = dm_name(vg.name, res'.arg[1])
            /\ res'.status = "ok"
                 => dm_name(vg.name, res'.arg[1]) \notin DmNames(dm')]_vars

(* lv_remove returned Ok: it has removed the device of another tool that   *)
(* had the bare name of the LV, and the device lv_create_linear made for   *)
(* the LV is still there                                                   *)
C38_CreatedDeviceLeft ==
    /\ res.op = "lv_remove"
    /\ res.status = "ok"
    /\ res.arg[1] \notin DOMAIN vg.lvs
    /\ ForeignDm \notin dm
    /\ \E x \in dm : /\ x.name = dm_name(vg.name, res.arg[1])
                     /\ x.table # <<>>

----------------------------------------------------------------------------
(* Properties of the payload writes of write_metadata (SpecMda)            *)

(* the bytes of the device outside the ring of the area: up to the end of  *)
(* its header sector, and from the end of the area on                      *)
OutsideRing(area, dev) ==
    <<Slice(dev, 0, area.offset + MDA_HEADER_SIZE),
      Slice(dev, area.offset + area.size, BufLen(dev))>>

(* C39: a metadata write puts payload bytes only inside the ring           *)
(* [MDA.offset + 512, MDA.offset + MDA.size) of the area, no byte of the   *)
(* blob is overwritten by a later byte of the same blob, and a blob longer *)
(* than the ring, MDA.size - 512, is turned down with an error and the     *)
(* header of the area is left as it was.                                   *)
C39_PayloadInRing ==
    [][/\ wr.pc \in {"payload_first", "payload_rest"}
            => OutsideRing(wr.areas[wr.k], disk'[MdaDev])
                 = OutsideRing(wr.areas[wr.k], disk[MdaDev])
       /\ (wr.pc = "payload_rest" /\ wr.written # BufLen(wr.text)
             /\ disk' # disk)
            => MDA_HEADER_SIZE + BufLen(wr.text) - wr.written
                 <= start_off(wr.areas[wr.k], wr.rl)
       /\ (wr.pc = "header"
             /\ BufLen(wr.text) > wr.areas[wr.k].size - MDA_HEADER_SIZE)
            => disk' = disk /\ res'.status \in {"err", "crashed"}]_vars

(* a write of a text longer than the ring returned Ok, and the header of   *)
(* the area gives the whole length of it                                   *)
C39_OversizedAccepted ==
    /\ res.op = "write_metadata"
    /\ res.status = "ok"
    /\ wr.pc = "idle"
    /\ res.arg[1] > wr.areas[1].size - MDA_HEADER_SIZE
    /\ \E h \in {read_mda_header(wr.areas[1], disk[MdaDev])} :
         /\ h.status = "ok"
         /\ h.rl # None
         /\ h.rl[1].size = res.arg[1]

----------------------------------------------------------------------------
(* metad.rs: a request to lvmetad and the collection of its response       *)
(* (SpecMetad).  The peer sends the bytes of wr.stream and closes the      *)
(* connection: a read gives some of the bytes left, at most the buffer, or *)
(* 0 bytes once none is left.                                              *)

(* let mut response = [0; 32] *)
RESPONSE_BUF == 32

MaxResponseLen == 5

ResponseBytes == {"a", "#", "\n"}

Responses == UNION {[1 .. n -> ResponseBytes] : n \in 0 .. MaxResponseLen}

EndMarker == <<"\n", "#", "#", "\n">>

(* v.ends_with(b"\n##\n") *)
ends_with(v, m) ==
    Len(v) >= Len(m) /\ SubSeq(v, Len(v) - Len(m) + 1, Len(v)) = m

InitMetad ==
    /\ \E stream \in Responses :
         wr = [pc |-> "connected", stream |-> stream, v |-> <<>>, bytes_read |-> 0]
    /\ res = [op |-> "connect", arg |-> <<>>, status |-> "ok", why |-> <<>>,
              mutated |-> FALSE]
    /\ disk = EmptyMap
    /\ partitions = {}
    /\ vg = [name |-> VgName, seqno |-> 0, extent_size |-> DEFAULT_EXTENT_SIZE,
             pvs |-> EmptyMap, lvs |-> EmptyMap]
    /\ dm = {}

(* _request: the request and its end marker are written, collect_response  *)
(* is entered; or a write fails and the error is returned                  *)
SendRequest ==
    /\ wr.pc = "connected"
    /\ \E env \in {"ok", "write_fails"} :
         IF env = "ok"
         THEN /\ wr' = [wr EXCEPT !.pc = "reading"]
              /\ res' = [res EXCEPT !.op = "request", !.status = "running"]
         ELSE /\ wr' = [wr EXCEPT !.pc = "returned"]
              /\ res' = [res EXCEPT !.op = "request", !.status = "err",
                                    !.why = <<"write_all">>]
    /\ UNCHANGED <<disk, partitions, vg, dm>>

(* collect_response, one turn of its loop: stream.read(&mut response)?,    *)
(* v.extend(&response[..bytes_read]), and the test for the end marker      *)
StreamRead(env) ==
    /\ wr.pc = "reading"
    /\ \E e \in {env} :
         IF e = "read_fails"
         THEN /\ wr' = [wr EXCEPT !.pc = "returned"]
              /\ res' = [res EXCEPT !.status = "err", !.why = <<"read">>]
         ELSE \E bytes_read \in
                  IF wr.stream = <<>> THEN {0}
                  ELSE 1 .. Min(RESPONSE_BUF, Len(wr.stream)) :
                \E v \in {wr.v \o SubSeq(wr.stream, 1, bytes_read)} :
                  IF ends_with(v, EndMarker)
                  THEN /\ wr' = [pc |-> "returned",
                                 stream |-> SubSeq(wr.stream, bytes_read + 1,
                                                   Len(wr.stream)),
                                 v |-> SubSeq(v, 1, Len(v) - 4),
                                 bytes_read |-> bytes_read]
                       /\ res' = [res EXCEPT !.status = "ok"]
                  ELSE /\ wr' = [pc |-> "reading",
                                 stream |-> SubSeq(wr.stream, bytes_read + 1,
                                                   Len(wr.stream)),
                                 v |-> v,
                                 bytes_read |-> bytes_read]
                       /\ UNCHANGED res
    /\ UNCHANGED <<disk, partitions, vg, dm>>

NextMetad == SendRequest \/ \E env \in {"ok", "read_fails"} : StreamRead(env)

(* the thread of the request runs, and its reads are not bound to fail *)
SpecMetad ==
    /\ InitMetad
    /\ [][NextMetad]_vars
    /\ WF_vars(SendRequest)
    /\ WF_vars(StreamRead("ok"))

(* a request returns; it does when the peer's last bytes are the end marker *)
RequestReturns == <>(wr.pc = "returned")

MarkedRequestReturns ==
    (wr.pc = "connected" /\ ends_with(wr.stream, EndMarker)) ~> (wr.pc = "returned")

(* C40: a request to the metadata daemon returns: when the peer closes the *)
(* connection, the read giving 0 bytes, before the end marker "\n##\n" has *)
(* come, the collection of the response ends with an error and does not    *)
(* read again.                                                             *)
C40_ClosedPeerIsError ==
    [][(wr.pc = "reading" /\ wr.stream = <<>>)
         => /\ wr'.pc = "returned"
            /\ res'.status = "err"]_vars

(* the peer has closed the connection without the end marker, the read     *)
(* gave 0 bytes, and collect_response is in its loop with nothing left but *)
(* to read 0 bytes again                                                   *)
C40_ReadsForever ==
    /\ wr.pc = "reading"
    /\ wr.stream = <<>>
    /\ wr.bytes_read = 0
    /\ wr.v # <<>>
    /\ ~ends_with(wr.v, EndMarker)

====
